---- MODULE Spec2Model ----
(***************************************************************************)
(* Elytra control plane (apps/server/src/index.ts): the worker set, the    *)
(* dataset catalog, the job registry, the chunk_result / chunk_error       *)
(* message handler, mergeResults and the POST /api/jobs dispatch loop.     *)
(***************************************************************************)
EXTENDS Integers, Sequences, FiniteSets, Bags, TLC

\* ---------------------------------------------------------------- bounds
\* accepted jobs (jobIdCounter never exceeds it)
MaxJobs == 2
\* jobs accepted in the coordinator's protocol specification
ProtocolJobs == 1
\* WebSocket connections ever accepted
MaxConns == 2
\* chunk ids an upload may carry are 0..MaxChunkId
MaxChunkId == 1
\* chunk_result messages counted for one job that can never resolve
MaxExtra == 1

ConnIds == 1..MaxConns
JobIds == 1..MaxJobs
\* ids Math.random() may return, and ids a request may name
DatasetIds == {"d1"}
RequestDatasetIds == DatasetIds \cup {"missing"}
ShardIds == {0}
UploadChunkIds == 0..MaxChunkId
\* chunkId fields of worker messages: every slot of the largest job and one beyond
MsgChunkIds == 0..(MaxChunkId + 1)
Roles == {"worker", "controller"}

\* ---------------------------------------------------------------- values
\* JSON values carried by result messages: numbers, arrays of numbers, and
\* the empty slot of a JavaScript array created by new Array(n)
Num(n) == [kind |-> "number", n |-> n, items |-> << >>]
Arr(s) == [kind |-> "array", n |-> 0, items |-> s]
Hole == [kind |-> "hole", n |-> 0, items |-> << >>]

NumberResults == {Num(1), Num(2)}
ArrayResults == {Arr(<<1>>), Arr(<<2, 3>>)}

\* operation descriptors (packages/core/src/dataset.ts, type Op)
Op(type, fn, initialValue) == [type |-> type, fn |-> fn, initialValue |-> initialValue]
OpsChoices ==
    { << >>,
      << Op("map", "x=>x", 0) >>,
      << Op("map", "x=>x", 0), Op("count", "", 0) >>,
      << Op("reduce", "(a,b)=>a-b", 100) >>,
      << Op("map", "x=>x", 0), Op("reduce", "(a,b)=>2*a+b", 1) >> }

\* the kind of the last operation, "" for an empty pipeline
LastOpType(ops) == IF Len(ops) > 0 THEN ops[Len(ops)].type ELSE ""

\* what the worker runtime returns for a chunk of a pipeline (compute.worker.ts):
\* a number after count or reduce, the chunk array otherwise
ResultsFor(ops) ==
    IF LastOpType(ops) \in {"count", "reduce"} THEN NumberResults ELSE ArrayResults

\* ---------------------------------------------------------------- arrays
\* A JavaScript array is a sequence of slots; slot k is element k + 1.
NewArray(n) == [i \in 1..n |-> Hole]

Max(a, b) == IF a >= b THEN a ELSE b

\* (mutant) partials.push(result): results stored in arrival order
ArraySetPush(a, k, v) ==
    LET free == {i \in 1..Len(a) : a[i].kind = "hole"}
    IN  IF free = {} THEN Append(a, v)
        ELSE [a EXCEPT ![CHOOSE i \in free : \A j \in free : i <= j] = v]

\* partials[chunkId] = result: an assignment beyond the length grows the array
\* with empty slots
ArraySet(a, k, v) ==
    [i \in 1..Max(Len(a), k + 1) |->
        IF i = k + 1 THEN v ELSE IF i <= Len(a) THEN a[i] ELSE Hole]

\* reduce and flat visit the slots in ascending index order and skip empty ones
IsFilled(v) == v.kind # "hole"
Filled(a) == SelectSeq(a, IsFilled)

\* (mutant) (acc, val) => acc + 1: counts the partials instead of adding them
SumFoldCounting(s, acc) == Num(acc.n + Len(s))

\* (acc, val) => acc + val on numbers
RECURSIVE SumFold(_, _)
SumFold(s, acc) ==
    IF s = << >> THEN acc ELSE SumFold(Tail(s), Num(acc.n + Head(s).n))

\* the function new Function("return " + lastOp.fn)() yields
ApplyFn(fn, a, b) ==
    IF fn = "(a,b)=>a-b" THEN Num(a.n - b.n)
    ELSE IF fn = "(a,b)=>2*a+b" THEN Num(2 * a.n + b.n)
    ELSE Num(a.n + b.n)

RECURSIVE ReduceFold(_, _, _)
ReduceFold(s, fn, acc) ==
    IF s = << >> THEN acc ELSE ReduceFold(Tail(s), fn, ApplyFn(fn, acc, Head(s)))

\* (mutant) each partial is put in front of the ones before it
RECURSIVE FlatPrepending(_)
FlatPrepending(s) ==
    IF s = << >> THEN << >>
    ELSE FlatPrepending(Tail(s))
         \o (IF Head(s).kind = "array" THEN Head(s).items ELSE << Head(s).n >>)

\* Array.prototype.flat(): one level; an element that is no array is kept
RECURSIVE Flat(_)
Flat(s) ==
    IF s = << >> THEN << >>
    ELSE (IF Head(s).kind = "array" THEN Head(s).items ELSE << Head(s).n >>)
         \o Flat(Tail(s))

mergeResults(partials, ops) ==
    IF Len(ops) > 0 /\ ops[Len(ops)].type = "count"
    THEN SumFold(Filled(partials), Num(0))
    ELSE IF Len(ops) > 0 /\ ops[Len(ops)].type = "reduce"
    THEN ReduceFold(Filled(partials), ops[Len(ops)].fn, Num(ops[Len(ops)].initialValue))
    ELSE Arr(Flat(Filled(partials)))

\* ---------------------------------------------------------------- maps
\* Map.set / Map.delete / an empty Map
EmptyMap == [x \in {} |-> 0]
MapSet(m, k, v) == [x \in DOMAIN m \cup {k} |-> IF x = k THEN v ELSE m[x]]
MapDelete(m, k) == [x \in DOMAIN m \ {k} |-> m[x]]

\* ---------------------------------------------------------------- browser bounds
\* workers of the pool: getPool() passes max(2, hardwareConcurrency) to the constructor
PoolSize == 2
\* callbacks that ask the pool for a worker
MaxHolders == 4
\* calls of executeParquetPipeline
MaxPipelines == 4
\* execute messages the worker page receives
MaxMessages == 4
\* navigator.hardwareConcurrency as the worker page reads it
MAX_CONCURRENT_TASKS == 2
\* arguments of splitIntoRanges
MaxTotal == 15
MaxParts == 4
\* if (parquetFileCache.size >= 2)
CacheLimit == 2

Workers == 1 .. PoolSize
HolderIds == 1 .. MaxHolders
PipelineIds == 1 .. MaxPipelines
Urls == {"u1", "u2", "u3"}

\* ---------------------------------------------------------------- state
VARIABLES
    sockets,        \* connection id -> [state, role, missed]: the WebSocket, its ?role=
                    \* parameter, and the liveness periods gone by since its peer vanished
    activeWorkers,  \* the Set activeWorkers, in insertion order
    datasets,       \* the Map datasets: id -> [name, timestamp, shards, obj], shards in
                    \* insertion order, obj the identity of the DatasetMeta object
    files,          \* chunk files on disk: <<datasetId, shardId, chunkId>>
    disk,           \* dataset directories under DATA_ROOT: id -> [meta], the meta.json in it
    now,            \* Date.now(), in hours
    inflight,       \* catalog requests and reaper runs suspended at an await
    jobIdCounter,
    jobs,           \* the Map jobs
    promises,       \* jobId -> the promise POST /api/jobs awaits
    responses,      \* jobId -> the HTTP responses written for the submission
    dispatch,       \* jobId -> the dispatch loop of the submission (tasks, workerArray, index)
    sent,           \* every frame the server wrote to a connection: [type, jobId, chunkId, to]
    replied,        \* sent tasks a worker has answered
    received,       \* jobId -> bag of <<chunkId, result>> stored into the job's partials
    calls,          \* jobId -> the calls made of the job's resolve / reject, in order
    event,          \* the step just taken
    \* the browser: the executor module and the worker page
    workerPool,     \* the WorkerPool: [busy, queue], its workers being 1..PoolSize
    holders,        \* holder -> [pc, worker, ticket]: the async callbacks that acquire a
                    \* worker, run it and release it; ticket numbers the acquire calls
                    \* of those that have not released yet
    parquetLock,    \* the promise the module variable parquetLock holds: 0 is the
                    \* Promise.resolve() it starts with, k the promise call k created
    parquetFileCache,  \* the keys of the Map parquetFileCache, in insertion order
    pipelines,      \* call -> [pc, url, currentLock, released]: the calls of
                    \* executeParquetPipeline, numbered in the order they were made
    split,          \* [total, parts, ranges, applied]: a call of splitIntoRanges
    jobQueue,       \* the array jobQueue of the worker page
    activeTasksCount,
    running,        \* the tasks processQueue started whose pipeline has not settled
    wsOut,          \* the chunk_result / chunk_error frames the worker page sent, in order
    arrived         \* the number of execute messages the worker page has received

\* the state of the browser, which no handler of the server touches
browser == << workerPool, holders, parquetLock, parquetFileCache, pipelines, split,
              jobQueue, activeTasksCount, running, wsOut, arrived >>

\* the state of the server, which no step in the browser touches
server == << sockets, activeWorkers, datasets, files, disk, now, inflight, jobIdCounter, jobs,
             promises, responses, dispatch, sent, replied, received, calls >>

vars == << sockets, activeWorkers, datasets, files, disk, now, inflight, jobIdCounter, jobs, promises,
           responses, dispatch, sent, replied, received, calls, event,
           workerPool, holders, parquetLock, parquetFileCache, pipelines, split,
           jobQueue, activeTasksCount, running, wsOut, arrived >>

Event(op, type, jobId, chunkId, status, error) ==
    [op |-> op, type |-> type, jobId |-> jobId, chunkId |-> chunkId,
     status |-> status, error |-> error]

\* the module variables of the executor and the locals of the worker page's
\* effect, as their declarations leave them
PoolInit ==
    /\ workerPool = [busy |-> {}, queue |-> << >>]
    /\ holders = [h \in HolderIds |-> [pc |-> "idle", worker |-> 0, ticket |-> 0]]

ParquetInit ==
    /\ parquetLock = 0
    /\ parquetFileCache = << >>
    /\ pipelines = [k \in PipelineIds |->
                       [pc |-> "none", url |-> "", currentLock |-> 0, released |-> FALSE]]

NoSplit == [total |-> 0, parts |-> 1, ranges |-> << >>, applied |-> FALSE]

PageInit ==
    /\ jobQueue = << >>
    /\ activeTasksCount = 0
    /\ running = {}
    /\ wsOut = << >>
    /\ arrived = 0

BrowserInit ==
    /\ PoolInit
    /\ ParquetInit
    /\ split = NoSplit
    /\ PageInit

ServerInit ==
    /\ sockets = [c \in ConnIds |-> [state |-> "new", role |-> "worker", missed |-> 0]]
    /\ activeWorkers = << >>
    /\ datasets = EmptyMap
    /\ files = {}
    /\ disk = EmptyMap
    /\ now = 0
    /\ inflight = {}
    /\ jobIdCounter = 0
    /\ jobs = EmptyMap
    /\ promises = EmptyMap
    /\ responses = EmptyMap
    /\ dispatch = EmptyMap
    /\ sent = {}
    /\ replied = {}
    /\ received = EmptyMap
    /\ calls = EmptyMap
    /\ event = Event("init", "", 0, 0, 0, "")

Init ==
    /\ ServerInit
    /\ BrowserInit

\* ---------------------------------------------------------------- connections
\* Set.add keeps insertion order and ignores a member already present
SetAdd(set, x) ==
    IF \E i \in 1..Len(set) : set[i] = x THEN set ELSE Append(set, x)
\* (mutant) the close handler leaves the set alone
SetDeleteNothing(set, x) == set

SetDelete(set, x) == SelectSeq(set, LAMBDA y : y # x)

\* wss.on("connection"); connections are numbered in the order they are
\* accepted: every accepted socket joins activeWorkers; the role
\* the client put in the URL (?role=worker, ?role=controller) is not read
OnConnection(c, role) ==
    /\ sockets[c].state = "new"
    /\ \A b \in ConnIds : b < c => sockets[b].state # "new"
    /\ sockets' = [sockets EXCEPT ![c] = [state |-> "open", role |-> role, missed |-> 0]]
    /\ activeWorkers' = SetAdd(activeWorkers, c)
    /\ event' = Event("connection", role, 0, 0, 0, "")
    /\ UNCHANGED << datasets, files, disk, now, browser, inflight, jobIdCounter, jobs, promises, responses,
                    dispatch, sent, replied, received, calls >>

\* ws.on("close")
OnClose(c) ==
    /\ sockets[c].state = "open"
    /\ sockets' = [sockets EXCEPT ![c].state = "closed"]
    /\ activeWorkers' = SetDelete(activeWorkers, c)
    /\ event' = Event("close", "", 0, 0, 0, "")
    /\ UNCHANGED << datasets, files, disk, now, browser, inflight, jobIdCounter, jobs, promises, responses,
                    dispatch, sent, replied, received, calls >>

\* liveness periods followed for a connection whose peer has vanished
MaxTicks == 2

\* the peer of connection c vanishes (power loss, network partition): no close
\* frame and no TCP reset reaches the server, whose socket stays OPEN
LoseSilently(c) ==
    /\ sockets[c].state = "open"
    /\ sockets' = [sockets EXCEPT ![c].state = "lost"]
    /\ event' = Event("lost", "", 0, 0, 0, "")
    /\ UNCHANGED << activeWorkers, datasets, files, disk, now, browser, inflight, jobIdCounter, jobs, promises,
                    responses, dispatch, sent, replied, received, calls >>

\* one liveness period (30 s) goes by: the server has no timer that pings or
\* inspects its connections, so nothing but the time changes
Tick ==
    /\ \E c \in DOMAIN sockets : sockets[c].state = "lost" /\ sockets[c].missed < MaxTicks
    /\ sockets' = [c \in DOMAIN sockets |->
                      IF sockets[c].state = "lost" /\ sockets[c].missed < MaxTicks
                      THEN [sockets[c] EXCEPT !.missed = @ + 1]
                      ELSE sockets[c]]
    /\ event' = Event("tick", "", 0, 0, 0, "")
    /\ UNCHANGED << activeWorkers, datasets, files, disk, now, browser, inflight, jobIdCounter, jobs, promises,
                    responses, dispatch, sent, replied, received, calls >>

\* ---------------------------------------------------------------- catalog
ShardMeta(shardId, rowStart, rowEnd, chunks) ==
    [shardId |-> shardId, rowStart |-> rowStart, rowEnd |-> rowEnd, chunks |-> chunks]

\* a DatasetMeta object; obj tells two objects with equal fields apart
DatasetMeta(name, timestamp, shards, obj) ==
    [name |-> name, timestamp |-> timestamp, shards |-> shards, obj |-> obj]

HasShard(shards, shardKey) == \E i \in 1..Len(shards) : shards[i].shardId = shardKey

\* Map.set(key, value) on the shard Map: a present key keeps its position
ShardsSet(shards, key, value) ==
    IF HasShard(shards, key)
    THEN [i \in 1..Len(shards) |-> IF shards[i].shardId = key THEN value ELSE shards[i]]
    ELSE Append(shards, value)

\* a meta.json: absent, the text JSON.stringify produced, or a proper prefix of
\* that text left behind by a write that was cut short
NoFile == [kind |-> "none", name |-> "", timestamp |-> 0, shards |-> << >>]
Truncated == [kind |-> "truncated", name |-> "", timestamp |-> 0, shards |-> << >>]

\* JSON.stringify({ ...meta, shards: Array.from(meta.shards.entries()) }, null, 2)
Serialize(meta) ==
    [kind |-> "json", name |-> meta.name, timestamp |-> meta.timestamp,
     shards |-> [i \in 1..Len(meta.shards) |->
                    << meta.shards[i].shardId, meta.shards[i] >>]]

\* new Map(rawMeta.shards)
RECURSIVE MapFromEntries(_, _)
MapFromEntries(entries, acc) ==
    IF entries = << >> THEN acc
    ELSE MapFromEntries(Tail(entries), ShardsSet(acc, Head(entries)[1], Head(entries)[2]))

\* JSON.parse(fs.readFileSync(metaPath)) throws on a text that is no JSON
ParseThrows(file) == file.kind # "json"

\* the DatasetMeta built from a parsed meta.json
ParseMeta(file, obj) ==
    DatasetMeta(file.name, file.timestamp, MapFromEntries(file.shards, << >>), obj)

\* fs.mkdirSync(dir, { recursive: true })
Mkdir(d, id) == IF id \in DOMAIN d THEN d ELSE MapSet(d, id, [meta |-> NoFile])

\* saveMetadata: fs.writeFileSync(metaPath, JSON.stringify(...)), given the directory
SaveMetadata(d, uploadId, meta) == [d EXCEPT ![uploadId].meta = Serialize(meta)]

\* fs.promises.rm(dir, { recursive: true, force: true }), carried out in full
Rm(d, id) == MapDelete(d, id)
RmFiles(fs, id) == { f \in fs : f[1] # id }

\* the object identity of a newly created DatasetMeta: one no catalog entry
\* other than the one being replaced and no suspended request refers to
FreshObj(uploadId) ==
    LET used == { datasets[x].obj : x \in DOMAIN datasets \ {uploadId} }
                \cup { r.dataset.obj : r \in inflight }
    IN  CHOOSE n \in 1..(Cardinality(used) + 1) : n \notin used /\
            \A m \in 1..(Cardinality(used) + 1) : m \notin used => n <= m

\* name || "dataset_" + Date.now()
NameOrDefault(name) == IF name = "" THEN "dataset_" \o ToString(now) ELSE name

\* POST /api/start-upload: datasets.set(uploadId, meta) with an empty shard
\* Map, for whatever id Math.random() produced, then mkdirSync and saveMetadata
StartUpload(uploadId, name) ==
    LET meta == DatasetMeta(NameOrDefault(name), now, << >>, FreshObj(uploadId))
    IN  /\ datasets' = MapSet(datasets, uploadId, meta)
        /\ disk' = SaveMetadata(Mkdir(disk, uploadId), uploadId, meta)
        /\ event' = Event("start-upload", uploadId, 0, 0, 200, "")
        /\ UNCHANGED << sockets, activeWorkers, files, now, browser, inflight, jobIdCounter, jobs,
                        promises, responses, dispatch, sent, replied, received, calls >>

\* (mutant) chunks = chunkId + 1: the last upload to arrive sets the count
ShardsAfterUploadLastWins(shards, shardKey, chunkId, rowStart, rowEnd) ==
    LET s0 == IF HasShard(shards, shardKey) THEN shards
              ELSE Append(shards, ShardMeta(shardKey, rowStart, rowEnd, 0))
    IN  [i \in 1..Len(s0) |->
            IF s0[i].shardId = shardKey
            THEN [s0[i] EXCEPT !.chunks = chunkId + 1, !.rowEnd = Max(@, rowEnd)]
            ELSE s0[i]]

\* the shard Map after one accepted chunk upload: the shard is created on its
\* first chunk, chunks = max(chunks, chunkId + 1), rowEnd = max(rowEnd, rowEnd)
ShardsAfterUpload(shards, shardKey, chunkId, rowStart, rowEnd) ==
    LET s0 == IF HasShard(shards, shardKey) THEN shards
              ELSE Append(shards, ShardMeta(shardKey, rowStart, rowEnd, 0))
    IN  [i \in 1..Len(s0) |->
            IF s0[i].shardId = shardKey
            THEN [s0[i] EXCEPT !.chunks = Max(@, chunkId + 1),
                               !.rowEnd = Max(@, rowEnd)]
            ELSE s0[i]]

\* a request or reaper run suspended at an await: what it was called with, the
\* DatasetMeta object it holds, where it stands, and for a reaper run the time
\* it read and the entries its iteration has passed
Request(op, id, shardId, chunkId, rowEnd, hasFile, dataset, pc, at, visited) ==
    [op |-> op, id |-> id, shardId |-> shardId, chunkId |-> chunkId, rowEnd |-> rowEnd,
     hasFile |-> hasFile, dataset |-> dataset, pc |-> pc, at |-> at, visited |-> visited]

\* a write to the object `meta.obj` is seen through every reference to it: the
\* catalog entry, if it still is that object, and every suspended request holding it
CatalogWith(meta) ==
    [id \in DOMAIN datasets |->
        IF datasets[id].obj = meta.obj THEN meta ELSE datasets[id]]
InflightWith(requests, meta) ==
    { IF r.dataset.obj = meta.obj /\ r.op = "upload" THEN [r EXCEPT !.dataset = meta] ELSE r :
          r \in requests }

\* POST /api/upload-chunk when nothing else runs during its await; hasFile: the
\* request carries the "chunk" file part
UploadChunk(uploadId, shardId, chunkId, rowEnd, hasFile) ==
    /\ IF uploadId \notin DOMAIN datasets
       THEN /\ event' = Event("upload-chunk", "", 0, chunkId, 404, "Invalid uploadId")
            /\ UNCHANGED << datasets, files, disk, inflight >>
       ELSE LET meta == [datasets[uploadId] EXCEPT !.shards =
                            ShardsAfterUpload(@, shardId, chunkId, 0, rowEnd)]
            IN  /\ files' = IF hasFile THEN files \cup {<< uploadId, shardId, chunkId >>}
                            ELSE files
                /\ datasets' = CatalogWith(meta)
                /\ inflight' = InflightWith(inflight, meta)
                /\ disk' = SaveMetadata(Mkdir(disk, uploadId), uploadId, meta)
                /\ event' = Event("upload-chunk", "", 0, 0, 200, "")
    /\ UNCHANGED << sockets, activeWorkers, now, browser, jobIdCounter, jobs, promises,
                    responses, dispatch, sent, replied, received, calls >>

\* ---------------------------------------------------------------- restore
\* ids that name a dataset directory, in the order fs.readdirSync lists them
CatalogIds == {"d1", "d2"}
DirOrder == << "d1", "d2" >>
Listing(d) == SelectSeq(DirOrder, LAMBDA id : id \in DOMAIN d)

\* (mutant) the try encloses the loop: the first unparseable entry ends the scan
RECURSIVE RestoreFromStopping(_, _, _)
RestoreFromStopping(d, dirs, catalog) ==
    IF dirs = << >> THEN catalog
    ELSE LET uploadId == Head(dirs)
             file == d[uploadId].meta
         IN  IF file.kind = "none" THEN RestoreFromStopping(d, Tail(dirs), catalog)
             ELSE IF ParseThrows(file) THEN catalog
             ELSE RestoreFromStopping(d, Tail(dirs),
                      MapSet(catalog, uploadId,
                             ParseMeta(file, Cardinality(DOMAIN catalog) + 1)))

\* the loop of restoreDatasetsFromDisk over the listing `dirs`: a directory
\* without meta.json is passed over, a meta.json that does not parse is caught
\* and logged, any other is installed under the directory's name
RECURSIVE RestoreFrom(_, _, _)
RestoreFrom(d, dirs, catalog) ==
    IF dirs = << >> THEN catalog
    ELSE LET uploadId == Head(dirs)
             file == d[uploadId].meta
         IN  RestoreFrom(d, Tail(dirs),
                 IF file.kind = "none" \/ ParseThrows(file) THEN catalog
                 ELSE MapSet(catalog, uploadId,
                             ParseMeta(file, Cardinality(DOMAIN catalog) + 1)))

restoreDatasetsFromDisk(d) == RestoreFrom(d, Listing(d), EmptyMap)

\* the directory an earlier run left for a dataset with these fields
OnDisk(name, timestamp, shards) ==
    [meta |-> Serialize(DatasetMeta(name, timestamp, shards, 0))]

\* ---------------------------------------------------------------- catalog requests
\* requests and reaper runs suspended at one time
MaxInflight == 2
\* hours the clock is followed for
MaxClock == 3
\* const TWO_HOURS = 2 * 60 * 60 * 1000, in hours
TWO_HOURS == 2

\* the name field of a start-upload body; "" is a body without name
RequestNames == {"a", ""}

Suspend(r) == inflight \cup {r}
Retire(r) == inflight \ {r}

\* POST /api/upload-chunk carrying a file, up to `await fs.promises.rename`:
\* the lookup, then 404 or mkdirSync of the shard directory
UploadChunkBegin(uploadId, shardId, chunkId, rowEnd) ==
    /\ IF uploadId \notin DOMAIN datasets
       THEN /\ event' = Event("upload-chunk", uploadId, 0, chunkId, 404, "Invalid uploadId")
            /\ UNCHANGED << disk, inflight >>
       ELSE /\ Cardinality(inflight) < MaxInflight
            /\ disk' = Mkdir(disk, uploadId)
            /\ inflight' = Suspend(Request("upload", uploadId, shardId, chunkId, rowEnd,
                                           TRUE, datasets[uploadId], "rename", 0, {}))
            /\ event' = Event("upload-chunk", uploadId, 0, chunkId, 0, "")
    /\ UNCHANGED << sockets, activeWorkers, datasets, files, now, browser, jobIdCounter, jobs,
                    promises, responses, dispatch, sent, replied, received, calls >>

\* POST /api/upload-chunk from the rename on: the rename rejects when the shard
\* directory is gone and the catch block answers 500; otherwise the shard of
\* the object the lookup returned is updated and saveMetadata writes it out
UploadChunkFinish(r) ==
    /\ r \in inflight
    /\ r.op = "upload"
    /\ IF r.id \notin DOMAIN disk
       THEN /\ inflight' = Retire(r)
            /\ event' = Event("upload-chunk", r.id, 0, r.chunkId, 500, "ENOENT")
            /\ UNCHANGED << datasets, files, disk >>
       ELSE LET meta == [r.dataset EXCEPT !.shards =
                            ShardsAfterUpload(@, r.shardId, r.chunkId, 0, r.rowEnd)]
            IN  /\ files' = files \cup {<< r.id, r.shardId, r.chunkId >>}
                /\ datasets' = CatalogWith(meta)
                /\ inflight' = InflightWith(Retire(r), meta)
                /\ disk' = SaveMetadata(disk, r.id, meta)
                /\ event' = Event("upload-chunk", r.id, 0, r.chunkId, 200, "")
    /\ UNCHANGED << sockets, activeWorkers, now, browser, jobIdCounter, jobs, promises,
                    responses, dispatch, sent, replied, received, calls >>

\* DELETE /api/datasets/:id up to `await fs.promises.rm`: 404 for an id the
\* catalog does not hold
DeleteBegin(id) ==
    /\ IF id \notin DOMAIN datasets
       THEN /\ event' = Event("delete", id, 0, 0, 404, "Dataset not found")
            /\ UNCHANGED inflight
       ELSE /\ Cardinality(inflight) < MaxInflight
            /\ inflight' = Suspend(Request("delete", id, 0, 0, 0, FALSE, datasets[id],
                                           "rm", 0, {}))
            /\ event' = Event("delete", id, 0, 0, 0, "")
    /\ UNCHANGED << sockets, activeWorkers, datasets, files, disk, now, browser, jobIdCounter, jobs,
                    promises, responses, dispatch, sent, replied, received, calls >>

\* what an rm can come to: the directory is gone; it rejects with everything
\* in place; it rejects after unlinking meta.json
RmOutcomes == {"removed", "failed", "partly"}

\* the rm a DELETE or the reaper awaits takes effect in the file system
RmTakesEffect(r, outcome) ==
    /\ r \in inflight
    /\ r.pc = "rm"
    /\ disk' = IF outcome = "removed" THEN Rm(disk, r.id)
               ELSE IF outcome = "partly" /\ r.id \in DOMAIN disk
               THEN [disk EXCEPT ![r.id].meta = NoFile]
               ELSE disk
    /\ files' = IF outcome = "removed" THEN RmFiles(files, r.id) ELSE files
    /\ inflight' = Suspend([r EXCEPT !.pc = IF outcome = "removed" THEN "removed"
                                            ELSE "failed"]) \ {r}
    /\ event' = Event("rm", r.id, 0, 0, 0, outcome)
    /\ UNCHANGED << sockets, activeWorkers, datasets, now, browser, jobIdCounter, jobs, promises,
                    responses, dispatch, sent, replied, received, calls >>

\* DELETE /api/datasets/:id after its await: datasets.delete(id) and { ok: true },
\* or the catch block's 500 when the rm rejected
DeleteFinish(r) ==
    /\ r \in inflight
    /\ r.op = "delete"
    /\ r.pc \in {"removed", "failed"}
    /\ inflight' = Retire(r)
    /\ IF r.pc = "removed"
       THEN /\ datasets' = MapDelete(datasets, r.id)
            /\ event' = Event("delete", r.id, 0, 0, 200, "")
       ELSE /\ event' = Event("delete", r.id, 0, 0, 500, "rm failed")
            /\ UNCHANGED datasets
    /\ UNCHANGED << sockets, activeWorkers, files, disk, now, browser, jobIdCounter, jobs, promises,
                    responses, dispatch, sent, replied, received, calls >>

\* ---------------------------------------------------------------- reaper
AdvanceClock ==
    /\ now < MaxClock
    /\ now' = now + 1
    /\ event' = Event("clock", "", 0, 0, 0, "")
    /\ UNCHANGED << sockets, activeWorkers, datasets, files, disk, inflight, jobIdCounter,
                    jobs, promises, responses, dispatch, sent, replied, received, calls, browser >>

\* now - meta.timestamp > TWO_HOURS
IsExpired(meta, at) == at - meta.timestamp > TWO_HOURS

\* the entries a run that read the time `at` still has to remove
ToReap(catalog, at, visited) ==
    { id \in DOMAIN catalog \ visited : IsExpired(catalog[id], at) }

\* cleanupOldDatasets from the timer up to its first await: the loop passes
\* over the entries that are not expired and stops at the rm of the first that
\* is; with none, the run is over
ReaperStart ==
    /\ ~ \E r \in inflight : r.op = "reaper"
    /\ IF ToReap(datasets, now, {}) = {}
       THEN /\ event' = Event("reaper", "", 0, 0, 0, "done")
            /\ UNCHANGED inflight
       ELSE \E id \in ToReap(datasets, now, {}) :
               /\ Cardinality(inflight) < MaxInflight
               /\ inflight' = Suspend(Request("reaper", id, 0, 0, 0, FALSE, datasets[id],
                                              "rm", now, {id}))
               /\ event' = Event("reaper", id, 0, 0, 0, "rm")
    /\ UNCHANGED << sockets, activeWorkers, datasets, files, disk, now, browser, jobIdCounter, jobs,
                    promises, responses, dispatch, sent, replied, received, calls >>

\* cleanupOldDatasets after an await: datasets.delete(id), or the catch block
\* when the rm rejected; then the loop goes on to the next expired entry or ends
ReaperResume(r) ==
    /\ r \in inflight
    /\ r.op = "reaper"
    /\ r.pc \in {"removed", "failed"}
    /\ datasets' = IF r.pc = "removed" THEN MapDelete(datasets, r.id) ELSE datasets
    /\ IF ToReap(datasets', r.at, r.visited) = {}
       THEN /\ inflight' = Retire(r)
            /\ event' = Event("reaper", r.id, 0, 0, 0, "done")
       ELSE \E id \in ToReap(datasets', r.at, r.visited) :
               /\ inflight' = Suspend([r EXCEPT !.id = id, !.pc = "rm",
                                                !.dataset = datasets[id],
                                                !.visited = @ \cup {id}]) \ {r}
               /\ event' = Event("reaper", r.id, 0, 0, 0, "rm")
    /\ UNCHANGED << sockets, activeWorkers, files, disk, now, browser, jobIdCounter, jobs, promises,
                    responses, dispatch, sent, replied, received, calls >>

\* ---------------------------------------------------------------- restart
\* the process is started again: nothing in memory survives, the sockets are
\* gone, and restoreDatasetsFromDisk fills the catalog before the server listens
StartAgain(d) ==
    /\ datasets' = restoreDatasetsFromDisk(d)
    /\ inflight' = {}
    /\ sockets' = [c \in DOMAIN sockets |->
                      IF sockets[c].state = "new" THEN sockets[c]
                      ELSE [sockets[c] EXCEPT !.state = "closed"]]
    /\ activeWorkers' = << >>
    /\ jobIdCounter' = 0
    /\ jobs' = EmptyMap
    /\ promises' = EmptyMap
    /\ responses' = EmptyMap
    /\ dispatch' = EmptyMap
    /\ sent' = {}
    /\ replied' = {}
    /\ received' = EmptyMap
    /\ calls' = EmptyMap

\* the process is stopped between two steps and started again
Restart ==
    /\ StartAgain(disk)
    /\ event' = Event("restart", "", 0, 0, 0, "")
    /\ UNCHANGED << files, disk, now, browser >>

\* what a writeFileSync leaves when the process is stopped inside it: the file
\* was opened for writing, which empties it, and only part of the text got out
SaveCut(d, uploadId) == [d EXCEPT ![uploadId].meta = Truncated]

\* the process is stopped inside the saveMetadata of POST /api/start-upload,
\* and started again
StartUploadKilled(uploadId) ==
    /\ disk' = SaveCut(Mkdir(disk, uploadId), uploadId)
    /\ StartAgain(disk')
    /\ event' = Event("killed", uploadId, 0, 0, 0, "start-upload")
    /\ UNCHANGED << files, now, browser >>

\* the process is stopped inside the saveMetadata of POST /api/upload-chunk,
\* and started again
UploadChunkKilled(r) ==
    /\ r \in inflight
    /\ r.op = "upload"
    /\ r.id \in DOMAIN disk
    /\ files' = files \cup {<< r.id, r.shardId, r.chunkId >>}
    /\ disk' = SaveCut(disk, r.id)
    /\ StartAgain(disk')
    /\ event' = Event("killed", r.id, 0, 0, 0, "upload-chunk")
    /\ UNCHANGED << now, browser >>

\* ---------------------------------------------------------------- promises
\* new Promise((resolve, reject) => ...): the first call of resolve or reject
\* settles it, every later call does nothing
Pending == [state |-> "pending", value |-> Hole]

\* (mutant) a resolver that is not one-shot: the last call wins
SettleEveryCall(p, state, value) == [state |-> state, value |-> value]
Settle(p, state, value) ==
    IF p.state = "pending" THEN [state |-> state, value |-> value] ELSE p

\* the continuation of `await new Promise(...)` in POST /api/jobs, run once when
\* the promise settles: res.json({ result }), or the catch block's status 500
Respond(rs, p, state, value) ==
    IF p.state = "pending"
    THEN Append(rs, [status |-> IF state = "resolved" THEN 200 ELSE 500, body |-> value])
    ELSE rs

Call(fn, from) == [fn |-> fn, from |-> from]

\* job.resolve(v) / job.reject(e) / reject(e), called from `from`
CallResolver(jobId, fn, value, from) ==
    LET state == IF fn = "resolve" THEN "resolved" ELSE "rejected"
    IN  /\ promises' = [promises EXCEPT ![jobId] = Settle(@, state, value)]
        /\ responses' = [responses EXCEPT ![jobId] =
                            Respond(@, promises[jobId], state, value)]
        /\ calls' = [calls EXCEPT ![jobId] = Append(@, Call(fn, from))]

\* ---------------------------------------------------------------- messages
Message(type, jobId, chunkId, result) ==
    [type |-> type, jobId |-> jobId, chunkId |-> chunkId, result |-> result]

\* job.partials[data.chunkId] = data.result; job.completedChunks++
JobAfterResult(job, chunkId, result) ==
    [job EXCEPT !.partials = ArraySet(@, chunkId, result),
                !.completedChunks = @ + 1]

\* (mutant) the job completes one result early
IsCompleteEarly(job) == job.completedChunks >= job.expectedChunks - 1

IsComplete(job) == job.completedChunks = job.expectedChunks

\* (mutant) the entry is left in the registry
DeleteJobKeeping(registry, jobId) == registry

\* (mutant) jobs.clear(): every entry goes with the finished one
DeleteJobClearing(registry, jobId) == EmptyMap

\* jobs.delete(data.jobId)
DeleteJob(registry, jobId) == MapDelete(registry, jobId)

\* (mutant) a chunk_result for a jobId without entry creates the entry
HandleMessageUpserting(data) ==
    IF data.type = "chunk_result"
    THEN LET old == IF data.jobId \in DOMAIN jobs THEN jobs[data.jobId]
                    ELSE [ops |-> << >>, partials |-> << >>,
                          expectedChunks |-> 0, completedChunks |-> 0]
             job == JobAfterResult(old, data.chunkId, data.result)
         IN  /\ jobs' = MapSet(jobs, data.jobId, job)
             /\ UNCHANGED << promises, responses, calls, received >>
    ELSE UNCHANGED << jobs, promises, responses, calls, received >>

\* the body of ws.on("message") for the parsed frame `data`
HandleMessage(data) ==
    IF data.type = "chunk_result" /\ data.jobId \in DOMAIN jobs
    THEN LET job == JobAfterResult(jobs[data.jobId], data.chunkId, data.result)
         IN  /\ received' = [received EXCEPT ![data.jobId] =
                                @ (+) SetToBag({<< data.chunkId, data.result >>})]
             /\ IF IsComplete(job)
                THEN /\ CallResolver(data.jobId, "resolve",
                                     mergeResults(job.partials, job.ops), "chunk_result")
                     /\ jobs' = DeleteJob(jobs, data.jobId)
                ELSE /\ jobs' = [jobs EXCEPT ![data.jobId] = job]
                     /\ UNCHANGED << promises, responses, calls >>
    ELSE IF data.type = "chunk_error" /\ data.jobId \in DOMAIN jobs
    THEN /\ CallResolver(data.jobId, "reject", Hole, "chunk_error")
         /\ jobs' = DeleteJob(jobs, data.jobId)
         /\ UNCHANGED received
    ELSE UNCHANGED << jobs, promises, responses, calls, received >>

\* a frame from connection c; a job whose completed count has passed its
\* expected count takes at most MaxExtra further results
OnMessage(c, data) ==
    /\ sockets[c].state = "open"
    /\ (data.type = "chunk_result" /\ data.jobId \in DOMAIN jobs)
          => jobs[data.jobId].completedChunks
                 < jobs[data.jobId].expectedChunks + MaxExtra
    /\ HandleMessage(data)
    /\ event' = Event("message", data.type, data.jobId,
                       IF data.jobId \in DOMAIN jobs THEN data.chunkId ELSE 0, 0, "")
    /\ UNCHANGED << sockets, activeWorkers, datasets, files, disk, now, browser, inflight, jobIdCounter,
                    dispatch, sent, replied >>

\* ---------------------------------------------------------------- frames
\* a frame as it arrives on the socket: json tells what JSON.parse makes of its
\* text ("invalid": it throws; "null", "number": a value that is no object;
\* "object": the object `data`)
RawFrame(json, data) == [json |-> json, data |-> data]

\* JSON.parse throws on a text that is no JSON, and data.type throws on null
FrameThrows(raw) == raw.json \in {"invalid", "null"}

\* (mutant) the catch block ends the connection
CatchClosing(c) ==
    /\ sockets' = [sockets EXCEPT ![c].state = "closed"]
    /\ activeWorkers' = SetDelete(activeWorkers, c)

\* catch (e) { console.error("Worker message parse error", e) }
Catch(c) == UNCHANGED << sockets, activeWorkers >>

\* ws.on("message") from the raw text: the try block parses the frame and runs
\* the handler body on it; a number has no type, so neither branch is taken
OnFrame(c, raw) ==
    /\ sockets[c].state = "open"
    /\ IF FrameThrows(raw)
       THEN /\ Catch(c)
            /\ UNCHANGED << jobs, promises, responses, calls, received >>
       ELSE IF raw.json # "object"
       THEN UNCHANGED << sockets, activeWorkers, jobs, promises, responses, calls, received >>
       ELSE /\ HandleMessage(raw.data)
            /\ UNCHANGED << sockets, activeWorkers >>
    /\ event' = Event("frame", raw.json, raw.data.jobId, 0, 0, raw.data.type)
    /\ UNCHANGED << datasets, files, disk, now, browser, inflight, jobIdCounter, dispatch, sent,
                    replied >>

\* frames that are no chunk_result and no chunk_error: malformed ones, and
\* objects of another type or of none, about any job
OtherFrames ==
    { RawFrame(json, Message("", 0, 0, Hole)) : json \in {"invalid", "null", "number"} }
    \cup { RawFrame("object", Message(type, jobId, 0, Hole)) :
               type \in {"", "worker_progress", "hello"}, jobId \in 0..ProtocolJobs }

\* ---------------------------------------------------------------- jobs
Predicates == { [defined |-> FALSE, rowGreaterThan |-> 0],
                [defined |-> TRUE, rowGreaterThan |-> 5],
                [defined |-> TRUE, rowGreaterThan |-> 20] }
RowEnds == {10}

\* (mutant) the dataset is looked up before the apiKey is checked
SubmitStatusDatasetFirst(apiKey, datasetId) ==
    IF datasetId \notin DOMAIN datasets THEN 404
    ELSE IF ~apiKey THEN 401
    ELSE IF Len(activeWorkers) = 0 THEN 503
    ELSE 200

\* the validation at the head of POST /api/jobs; 200 stands for "accepted"
SubmitStatus(apiKey, datasetId) ==
    IF ~apiKey THEN 401
    ELSE IF datasetId \notin DOMAIN datasets THEN 404
    ELSE IF Len(activeWorkers) = 0 THEN 503
    ELSE 200

SubmitError(status) ==
    IF status = 401 THEN "Missing apiKey"
    ELSE IF status = 404 THEN "Dataset not found"
    ELSE IF status = 503 THEN "No workers available"
    ELSE ""

\* shard pruning
ShardsToProcess(shards, predicate) ==
    IF predicate.defined
    THEN SelectSeq(shards, LAMBDA sh : sh.rowEnd > predicate.rowGreaterThan)
    ELSE shards

Task(datasetId, shardId, chunkId) ==
    [shardId |-> shardId, chunkId |-> chunkId,
     path |-> << datasetId, shardId, chunkId >>]

\* (mutant) for (i = 0; i <= shard.chunks; i++): one task too many per shard
RECURSIVE BuildTasksInclusive(_, _)
BuildTasksInclusive(shards, datasetId) ==
    IF shards = << >> THEN << >>
    ELSE [i \in 1..(Head(shards).chunks + 1) |->
              Task(datasetId, Head(shards).shardId, i - 1)]
         \o BuildTasksInclusive(Tail(shards), datasetId)

\* shardsToProcess.forEach(shard => for (i = 0; i < shard.chunks; i++) tasks.push(...))
RECURSIVE BuildTasks(_, _)
BuildTasks(shards, datasetId) ==
    IF shards = << >> THEN << >>
    ELSE [i \in 1..Head(shards).chunks |-> Task(datasetId, Head(shards).shardId, i - 1)]
         \o BuildTasks(Tail(shards), datasetId)

NewJob(ops, tasks) ==
    [ops |-> ops, partials |-> NewArray(Len(tasks)),
     expectedChunks |-> Len(tasks), completedChunks |-> 0]

\* (mutant) the counter is read without being advanced past a job in flight
NextJobIdReused(counter) == IF counter = 0 THEN 1 ELSE counter

\* ++jobIdCounter
NextJobId(counter) == counter + 1

\* (mutant) jobs.set(jobId, ...) is left for after the dispatch loop
RegisterJobAfterDispatch(registry, jobId, job) == registry

\* jobs.set(jobId, { resolve, reject, ops, partials, expectedChunks, completedChunks })
\* in the promise executor, before the dispatch loop is started
RegisterJob(registry, jobId, job) == MapSet(registry, jobId, job)

\* POST /api/jobs up to the first await of the dispatch loop
Submit(apiKey, datasetId, ops, predicate) ==
    LET status == SubmitStatus(apiKey, datasetId)
        jobId == NextJobId(jobIdCounter)
        tasks == BuildTasks(ShardsToProcess(datasets[datasetId].shards, predicate),
                            datasetId)
    IN  IF status # 200
        THEN /\ event' = Event("submit", "", 0, 0, status, SubmitError(status))
             /\ UNCHANGED << sockets, activeWorkers, datasets, files, disk, now, browser, inflight, jobIdCounter,
                             jobs, promises, responses, dispatch, sent, replied,
                             received, calls >>
        ELSE /\ jobIdCounter < MaxJobs
             /\ jobIdCounter' = jobId
             /\ jobs' = RegisterJob(jobs, jobId, NewJob(ops, tasks))
             /\ promises' = MapSet(promises, jobId, Pending)
             /\ responses' = MapSet(responses, jobId, << >>)
             /\ received' = MapSet(received, jobId, EmptyBag)
             /\ calls' = MapSet(calls, jobId, << >>)
             /\ dispatch' = MapSet(dispatch, jobId,
                    [tasks |-> tasks, workerArray |-> activeWorkers, ops |-> ops,
                     index |-> 0,
                     pc |-> IF Len(tasks) = 0 THEN "done" ELSE "reading"])
             /\ event' = Event("submit", "", jobId, 0, 200, "")
             /\ UNCHANGED << sockets, activeWorkers, datasets, files, disk, now, browser, inflight, sent, replied >>

\* (mutant) the live worker set is indexed instead of the snapshot
WorkerForLive(workerArray, index) == activeWorkers[(index % Len(activeWorkers)) + 1]

\* workerArray[index % workerArray.length]
WorkerFor(workerArray, index) == workerArray[(index % Len(workerArray)) + 1]

\* one turn of the dispatch loop: the pending readFile completes, then either
\* the task is sent and the next read starts, or the read failed and the catch
\* block calls reject(e)
DispatchStep(jobId) ==
    /\ jobId \in DOMAIN dispatch
    /\ dispatch[jobId].pc = "reading"
    /\ LET d == dispatch[jobId]
           task == d.tasks[d.index + 1]
       IN  IF task.path \in files
           THEN /\ sent' = sent \cup {[type |-> "execute_chunk", jobId |-> jobId,
                                       chunkId |-> d.index,
                                       to |-> WorkerFor(d.workerArray, d.index)]}
                /\ dispatch' = [dispatch EXCEPT
                       ![jobId].index = d.index + 1,
                       ![jobId].pc = IF d.index + 1 < Len(d.tasks)
                                     THEN "reading" ELSE "done"]
                /\ event' = Event("dispatch", "send", jobId, d.index, 0, "")
                /\ UNCHANGED << promises, responses, calls >>
           ELSE /\ CallResolver(jobId, "reject", Hole, "dispatch")
                /\ dispatch' = [dispatch EXCEPT ![jobId].pc = "failed"]
                /\ event' = Event("dispatch", "failed", jobId, d.index, 0, "")
                /\ UNCHANGED sent
    /\ UNCHANGED << sockets, activeWorkers, datasets, files, disk, now, browser, inflight, jobIdCounter, jobs,
                    replied, received >>

\* ---------------------------------------------------------------- catalog specifications
\* registrations and chunk uploads, with their awaits, when the generator may
\* return any id, a used one included
RegisterNext ==
    \/ \E uploadId \in CatalogIds, name \in RequestNames : StartUpload(uploadId, name)
    \/ \E uploadId \in CatalogIds, shardId \in ShardIds, rowEnd \in RowEnds :
          UploadChunkBegin(uploadId, shardId, 0, rowEnd)
    \/ \E r \in inflight : UploadChunkFinish(r)
    \/ Restart

RegisterSpec == Init /\ [][RegisterNext]_vars

\* an id neither the catalog nor the data root holds
IsFreshId(uploadId) == uploadId \notin DOMAIN datasets \cup DOMAIN disk

\* the catalog's requests with their awaits, on a disk that does what it is asked
\* to, when the generator returns fresh ids only
PersistNext ==
    \/ \E uploadId \in CatalogIds, name \in RequestNames :
          IsFreshId(uploadId) /\ StartUpload(uploadId, name)
    \/ \E uploadId \in CatalogIds, shardId \in ShardIds, rowEnd \in RowEnds :
          UploadChunkBegin(uploadId, shardId, 0, rowEnd)
    \/ \E r \in inflight : UploadChunkFinish(r)
    \/ \E id \in CatalogIds : DeleteBegin(id)
    \/ \E r \in inflight : r.op = "delete" /\ RmTakesEffect(r, "removed")
    \/ \E r \in inflight : DeleteFinish(r)
    \/ Restart

PersistSpec == Init /\ [][PersistNext]_vars

\* deletion and age-based eviction while the clock runs, on a disk whose rm can
\* fail; ids are fresh
EvictNext ==
    \/ \E uploadId \in CatalogIds : IsFreshId(uploadId) /\ StartUpload(uploadId, "a")
    \/ AdvanceClock
    \/ \E id \in CatalogIds : DeleteBegin(id)
    \/ \E r \in inflight, outcome \in RmOutcomes : RmTakesEffect(r, outcome)
    \/ \E r \in inflight : DeleteFinish(r)
    \/ ReaperStart
    \/ \E r \in inflight : ReaperResume(r)

EvictSpec == Init /\ [][EvictNext]_vars

\* registrations and chunk uploads of a process that can be stopped at any
\* point, inside a write of meta.json included, and is started again; ids are fresh
CrashNext ==
    \/ \E uploadId \in CatalogIds, name \in RequestNames :
          IsFreshId(uploadId) /\ StartUpload(uploadId, name)
    \/ \E uploadId \in CatalogIds, shardId \in ShardIds, rowEnd \in RowEnds :
          UploadChunkBegin(uploadId, shardId, 0, rowEnd)
    \/ \E r \in inflight : UploadChunkFinish(r)
    \/ \E uploadId \in CatalogIds : IsFreshId(uploadId) /\ StartUploadKilled(uploadId)
    \/ \E r \in inflight : UploadChunkKilled(r)
    \/ Restart

CrashSpec == Init /\ [][CrashNext]_vars

\* ---------------------------------------------------------------- specification
\* the coordinator's protocol: one result value of each kind, pipelines ending
\* in count and in map; datasets are uploaded before the first job is accepted
ProtocolOps == { << Op("map", "x=>x", 0) >>,
                 << Op("map", "x=>x", 0), Op("count", "", 0) >> }
ProtocolResults(ops) ==
    IF LastOpType(ops) \in {"count", "reduce"} THEN {Num(1)} ELSE {Arr(<<1>>)}

\* the frames a connection may send about job jobId
Frames(jobId) ==
    { Message("chunk_result", jobId, chunkId, result) :
          chunkId \in MsgChunkIds,
          result \in IF jobId \in DOMAIN jobs THEN ProtocolResults(jobs[jobId].ops)
                     ELSE {Num(1)} }
    \cup { Message(type, jobId, 0, Hole) :
               type \in {"chunk_error", "worker_progress", "malformed"} }

Next ==
    \/ \E c \in ConnIds, role \in Roles : OnConnection(c, role)
    \/ \E c \in ConnIds : OnClose(c)
    \/ \E uploadId \in DatasetIds : jobIdCounter = 0 /\ StartUpload(uploadId, "a")
    \/ \E uploadId \in RequestDatasetIds, shardId \in ShardIds,
          chunkId \in UploadChunkIds, rowEnd \in RowEnds, hasFile \in BOOLEAN :
          jobIdCounter = 0 /\ UploadChunk(uploadId, shardId, chunkId, rowEnd, hasFile)
    \/ \E apiKey \in BOOLEAN, datasetId \in RequestDatasetIds, ops \in ProtocolOps,
          predicate \in Predicates :
          /\ jobIdCounter < ProtocolJobs \/ SubmitStatus(apiKey, datasetId) # 200
          /\ Submit(apiKey, datasetId, ops, predicate)
    \/ \E jobId \in JobIds : DispatchStep(jobId)
    \/ \E c \in ConnIds, jobId \in 1..ProtocolJobs :
          \E data \in Frames(jobId) : OnMessage(c, data)

Spec == Init /\ [][Next]_vars

\* ---------------------------------------------------------------- merging
\* chunks of the dataset the merge scenarios run on
MergeChunks == 3

\* the state after start-up when an earlier run left dataset d1 on disk, one
\* shard of MergeChunks chunks with every chunk file in place
MergeInit ==
    /\ sockets = [c \in ConnIds |-> [state |-> "new", role |-> "worker", missed |-> 0]]
    /\ activeWorkers = << >>
    /\ disk = MapSet(EmptyMap, "d1", OnDisk("a", 0, << ShardMeta(0, 0, 10, MergeChunks) >>))
    /\ datasets = restoreDatasetsFromDisk(disk)
    /\ now = 0
    /\ inflight = {}
    /\ files = { << "d1", 0, chunkId >> : chunkId \in 0..(MergeChunks - 1) }
    /\ jobIdCounter = 0
    /\ jobs = EmptyMap
    /\ promises = EmptyMap
    /\ responses = EmptyMap
    /\ dispatch = EmptyMap
    /\ sent = {}
    /\ replied = {}
    /\ received = EmptyMap
    /\ calls = EmptyMap
    /\ event = Event("init", "", 0, 0, 0, "")
    /\ BrowserInit

\* one job is run; chunk_result frames for its slots come in any order and
\* repeated, each from the worker the slot's task is assigned to
ResultFrames(jobId) ==
    { Message("chunk_result", jobId, chunkId, result) :
          chunkId \in 0..(MergeChunks - 1),
          result \in IF jobId \in DOMAIN jobs THEN ResultsFor(jobs[jobId].ops)
                     ELSE {Num(1)} }

MergeNext ==
    \/ \E c \in ConnIds : OnConnection(c, "worker")
    \/ \E ops \in OpsChoices :
          /\ jobIdCounter = 0
          /\ Submit(TRUE, "d1", ops, [defined |-> FALSE, rowGreaterThan |-> 0])
    \/ \E jobId \in JobIds : DispatchStep(jobId)
    \/ \E jobId \in DOMAIN dispatch : \E data \in ResultFrames(jobId) :
          OnMessage(WorkerFor(dispatch[jobId].workerArray, data.chunkId), data)

MergeSpec == MergeInit /\ [][MergeNext]_vars

\* ---------------------------------------------------------------- dispatching
\* one connection more than the protocol specification accepts, so that a worker
\* can join beside a snapshot of two
DispatchConns == MaxConns + 1

\* the state after start-up when an earlier run left dataset d1 on disk: shard 0
\* with two chunks and rows up to 10, shard 1 with one chunk and rows up to 30,
\* every chunk file in place
DispatchInit ==
    /\ sockets = [c \in 1..DispatchConns |-> [state |-> "new", role |-> "worker", missed |-> 0]]
    /\ activeWorkers = << >>
    /\ disk = MapSet(EmptyMap, "d1",
                     OnDisk("a", 0, << ShardMeta(0, 0, 10, 2), ShardMeta(1, 10, 30, 1) >>))
    /\ datasets = restoreDatasetsFromDisk(disk)
    /\ now = 0
    /\ inflight = {}
    /\ files = { << "d1", 0, 0 >>, << "d1", 0, 1 >>, << "d1", 1, 0 >> }
    /\ jobIdCounter = 0
    /\ jobs = EmptyMap
    /\ promises = EmptyMap
    /\ responses = EmptyMap
    /\ dispatch = EmptyMap
    /\ sent = {}
    /\ replied = {}
    /\ received = EmptyMap
    /\ calls = EmptyMap
    /\ event = Event("init", "", 0, 0, 0, "")
    /\ BrowserInit

DispatchOps == << Op("map", "x=>x", 0) >>

\* workers join, jobs are submitted with and without a predicate while the
\* dispatch loops of earlier jobs are still reading, and no frame arrives
DispatchNext ==
    \/ \E c \in 1..DispatchConns : OnConnection(c, "worker")
    \/ \E apiKey \in BOOLEAN, datasetId \in RequestDatasetIds, predicate \in Predicates :
          Submit(apiKey, datasetId, DispatchOps, predicate)
    \/ \E jobId \in JobIds : DispatchStep(jobId)

DispatchSpec == DispatchInit /\ [][DispatchNext]_vars

\* ---------------------------------------------------------------- concurrent jobs
\* the state after start-up when an earlier run left dataset d1 on disk: one
\* shard of two chunks with rows up to 10, both chunk files in place
JobsInit ==
    /\ sockets = [c \in ConnIds |-> [state |-> "new", role |-> "worker", missed |-> 0]]
    /\ activeWorkers = << >>
    /\ disk = MapSet(EmptyMap, "d1", OnDisk("a", 0, << ShardMeta(0, 0, 10, 2) >>))
    /\ datasets = restoreDatasetsFromDisk(disk)
    /\ now = 0
    /\ inflight = {}
    /\ files = { << "d1", 0, 0 >>, << "d1", 0, 1 >> }
    /\ jobIdCounter = 0
    /\ jobs = EmptyMap
    /\ promises = EmptyMap
    /\ responses = EmptyMap
    /\ dispatch = EmptyMap
    /\ sent = {}
    /\ replied = {}
    /\ received = EmptyMap
    /\ calls = EmptyMap
    /\ event = Event("init", "", 0, 0, 0, "")
    /\ BrowserInit

\* jobs over d1 run side by side: their dispatch loops interleave with each
\* other and with the frames any connection sends about either job
JobsNext ==
    \/ \E c \in ConnIds : OnConnection(c, "worker")
    \/ \E predicate \in Predicates : Submit(TRUE, "d1", DispatchOps, predicate)
    \/ \E jobId \in JobIds : DispatchStep(jobId)
    \/ \E c \in ConnIds, jobId \in JobIds :
          \E data \in Frames(jobId) : OnMessage(c, data)

JobsSpec == JobsInit /\ [][JobsNext]_vars

\* ---------------------------------------------------------------- outcomes
\* the state after start-up when an earlier run left dataset d1 on disk, one
\* shard of up to MaxChunkId + 1 chunks, with any of its chunk files missing
OutcomeInit ==
    /\ sockets = [c \in ConnIds |-> [state |-> "new", role |-> "worker", missed |-> 0]]
    /\ activeWorkers = << >>
    /\ \E chunks \in 1..(MaxChunkId + 1) :
          disk = MapSet(EmptyMap, "d1", OnDisk("a", 0, << ShardMeta(0, 0, 10, chunks) >>))
    /\ datasets = restoreDatasetsFromDisk(disk)
    /\ now = 0
    /\ inflight = {}
    /\ files \in SUBSET { << "d1", 0, chunkId >> : chunkId \in UploadChunkIds }
    /\ jobIdCounter = 0
    /\ jobs = EmptyMap
    /\ promises = EmptyMap
    /\ responses = EmptyMap
    /\ dispatch = EmptyMap
    /\ sent = {}
    /\ replied = {}
    /\ received = EmptyMap
    /\ calls = EmptyMap
    /\ event = Event("init", "", 0, 0, 0, "")
    /\ BrowserInit

\* one job is run: its file reads succeed or fail while chunk_result and
\* chunk_error frames about it arrive in any order and number
OutcomeNext ==
    \/ \E c \in ConnIds : OnConnection(c, "worker")
    \/ \E ops \in ProtocolOps, predicate \in Predicates :
          jobIdCounter = 0 /\ Submit(TRUE, "d1", ops, predicate)
    \/ \E jobId \in JobIds : DispatchStep(jobId)
    \/ \E c \in ConnIds, jobId \in 1..ProtocolJobs :
          \E data \in Frames(jobId) : OnMessage(c, data)

OutcomeSpec == OutcomeInit /\ [][OutcomeNext]_vars

\* ---------------------------------------------------------------- well-behaved workers
\* the worker page (processQueue) on connection task.to answers a task it was
\* sent with one chunk_result
WorkerReply(task, result) ==
    /\ task \in sent \ replied
    /\ sockets[task.to].state = "open"
    /\ HandleMessage(Message("chunk_result", task.jobId, task.chunkId, result))
    /\ replied' = replied \cup {task}
    /\ event' = Event("message", "chunk_result", task.jobId,
                      IF task.jobId \in DOMAIN jobs THEN task.chunkId ELSE 0, 0, "")
    /\ UNCHANGED << sockets, activeWorkers, datasets, files, disk, now, browser, inflight, jobIdCounter,
                    dispatch, sent >>

\* every connection is a worker page, none closes, and the only frames are
\* the workers' answers
FairNext ==
    \/ \E c \in ConnIds : OnConnection(c, "worker")
    \/ \E uploadId \in DatasetIds : jobIdCounter = 0 /\ StartUpload(uploadId, "a")
    \/ \E uploadId \in RequestDatasetIds, shardId \in ShardIds,
          chunkId \in UploadChunkIds, rowEnd \in RowEnds, hasFile \in BOOLEAN :
          jobIdCounter = 0 /\ UploadChunk(uploadId, shardId, chunkId, rowEnd, hasFile)
    \/ \E apiKey \in BOOLEAN, datasetId \in RequestDatasetIds, ops \in ProtocolOps,
          predicate \in Predicates :
          /\ jobIdCounter < ProtocolJobs \/ SubmitStatus(apiKey, datasetId) # 200
          /\ Submit(apiKey, datasetId, ops, predicate)
    \/ \E jobId \in JobIds : DispatchStep(jobId)
    \/ \E task \in sent : \E result \in ProtocolResults(dispatch[task.jobId].ops) :
          WorkerReply(task, result)

\* a pending file read completes and a worker that holds a task answers it
FairSpec ==
    /\ Init
    /\ [][FairNext]_vars
    /\ \A jobId \in JobIds : WF_vars(DispatchStep(jobId))
    /\ WF_vars(\E task \in sent :
                  \E result \in ProtocolResults(dispatch[task.jobId].ops) :
                      WorkerReply(task, result))

\* ---------------------------------------------------------------- worker pages
\* the catch branch of the worker page: the task threw and is answered with one
\* chunk_error
WorkerFail(task) ==
    /\ task \in sent \ replied
    /\ sockets[task.to].state = "open"
    /\ HandleMessage(Message("chunk_error", task.jobId, task.chunkId, Hole))
    /\ replied' = replied \cup {task}
    /\ event' = Event("message", "chunk_error", task.jobId,
                      IF task.jobId \in DOMAIN jobs THEN task.chunkId ELSE 0, 0, "")
    /\ UNCHANGED << sockets, activeWorkers, datasets, files, disk, now, browser, inflight, jobIdCounter,
                    dispatch, sent >>

\* connection c was sent a task it has not answered
HoldsTask(c) == \E task \in sent \ replied : task.to = c

\* every connection is a worker page: it answers each task it was sent at most
\* once, with a chunk_result or a chunk_error, and may close while it holds a
\* task; one job is run
WorkerNext ==
    \/ \E c \in ConnIds : OnConnection(c, "worker")
    \/ \E c \in ConnIds : HoldsTask(c) /\ OnClose(c)
    \/ \E uploadId \in DatasetIds : jobIdCounter = 0 /\ StartUpload(uploadId, "a")
    \/ \E uploadId \in RequestDatasetIds, shardId \in ShardIds,
          chunkId \in UploadChunkIds, rowEnd \in RowEnds, hasFile \in BOOLEAN :
          jobIdCounter = 0 /\ UploadChunk(uploadId, shardId, chunkId, rowEnd, hasFile)
    \/ \E apiKey \in BOOLEAN, datasetId \in RequestDatasetIds, ops \in ProtocolOps,
          predicate \in Predicates :
          /\ jobIdCounter = 0
          /\ Submit(apiKey, datasetId, ops, predicate)
    \/ \E jobId \in JobIds : DispatchStep(jobId)
    \/ \E task \in sent : \E result \in ProtocolResults(dispatch[task.jobId].ops) :
          WorkerReply(task, result)
    \/ \E task \in sent : WorkerFail(task)

WorkerSpec == Init /\ [][WorkerNext]_vars

\* ---------------------------------------------------------------- connection registry
\* progressCb of the worker page: the worker on connection task.to reports on a
\* task it is executing
WorkerProgress(task) ==
    /\ task \in sent \ replied
    /\ sockets[task.to].role = "worker"
    /\ OnMessage(task.to, Message("worker_progress", task.jobId, task.chunkId, Hole))

NoPredicate == [defined |-> FALSE, rowGreaterThan |-> 0]

\* worker and controller pages connect, close and vanish while a job over d1
\* is submitted and dispatched and its workers report progress
RegistryNext ==
    \/ \E c \in ConnIds, role \in Roles : OnConnection(c, role)
    \/ \E c \in ConnIds : OnClose(c)
    \/ \E c \in ConnIds : LoseSilently(c)
    \/ Tick
    \/ \E apiKey \in BOOLEAN, datasetId \in RequestDatasetIds :
          /\ jobIdCounter = 0 \/ SubmitStatus(apiKey, datasetId) # 200
          /\ Submit(apiKey, datasetId, DispatchOps, NoPredicate)
    \/ \E jobId \in JobIds : DispatchStep(jobId)
    \/ \E task \in sent : WorkerProgress(task)
    \/ \E c \in ConnIds, raw \in OtherFrames : OnFrame(c, raw)

RegistrySpec == JobsInit /\ [][RegistryNext]_vars

\* ---------------------------------------------------------------- job history
\* the task count the job was registered with
Expected(jobId) == Len(dispatch[jobId].tasks)

\* the job's resolver was called with a merged result
ResolverCalledWithResult(jobId) ==
    \E i \in 1..Len(calls[jobId]) : calls[jobId][i].fn = "resolve"

\* a chunk_error arrived while the job was registered
Errored(jobId) ==
    /\ jobId \in DOMAIN calls
    /\ \E i \in 1..Len(calls[jobId]) : calls[jobId][i].from = "chunk_error"

\* the number of chunk_result messages stored into slot chunkId of the job
Contributions(jobId, chunkId) ==
    LET hits == {p \in DOMAIN received[jobId] : p[1] = chunkId}
    IN  BagCardinality([p \in hits |-> received[jobId][p]])

\* ---------------------------------------------------------------- claims
\* C1: when a job's resolver is called with a merged result, every chunkId in
\* 0..expected-1 was contributed by exactly one chunk_result message.
C1_EachChunkContributedOnce ==
    \A jobId \in DOMAIN calls :
        ResolverCalledWithResult(jobId) =>
            \A chunkId \in 0..(Expected(jobId) - 1) :
                Contributions(jobId, chunkId) = 1

\* C2: once a job's promise is settled (merged result, chunk_error or a failed
\* dispatch), the job registry holds no entry for its jobId.
C2_NoEntryAfterResolution ==
    \A jobId \in DOMAIN promises :
        promises[jobId].state # "pending" => jobId \notin DOMAIN jobs

\* C3: every registered job has 0 <= completedChunks <= expectedChunks.
C3_CompletedWithinExpected ==
    \A jobId \in DOMAIN jobs :
        /\ 0 <= jobs[jobId].completedChunks
        /\ jobs[jobId].completedChunks <= jobs[jobId].expectedChunks

\* C4: a chunk_error for a registered job rejects the submitter's promise (one
\* 500 response) and deletes the job; a chunk_result arriving for that jobId
\* afterwards changes neither the registry nor any promise or response.
C4_ErrorTerminatesJob ==
    [][ event'.op = "message" =>
          /\ (event'.type = "chunk_error" /\ event'.jobId \in DOMAIN jobs) =>
                /\ event'.jobId \notin DOMAIN jobs'
                /\ promises'[event'.jobId].state = "rejected"
                /\ Len(responses'[event'.jobId]) = 1
                /\ responses'[event'.jobId][1].status = 500
                /\ \A other \in DOMAIN jobs \ {event'.jobId} :
                       other \in DOMAIN jobs' /\ jobs'[other] = jobs[other]
          /\ (event'.type = "chunk_result" /\ Errored(event'.jobId)) =>
                UNCHANGED << jobs, promises, responses, calls, received >>
      ]_vars

\* a chunk_result has arrived for a job that a chunk_error had terminated
C4_Witness ==
    /\ event.op = "message"
    /\ event.type = "chunk_result"
    /\ Errored(event.jobId)
    /\ promises[event.jobId].state = "rejected"

\* C9: every task message went to a connection that declared the worker role.
C9_TasksOnlyToWorkers ==
    \A task \in sent : sockets[task.to].role = "worker"

JobStateUnchanged ==
    UNCHANGED << jobIdCounter, jobs, promises, responses, dispatch, sent,
                 received, calls >>

\* C10: a submission without apiKey is answered 401, else one for an unknown
\* dataset 404, else one with no connected worker 503 "No workers available";
\* each of these creates no job and leaves the jobId counter alone, and a
\* submission is accepted only past all three checks. (A rejected submission
\* does not read ops or predicate, so one choice of them stands for all.)
C10_RejectedSubmission ==
    [][ event'.op = "submit" =>
          /\ \A apiKey \in BOOLEAN, datasetId \in RequestDatasetIds :
              (event'.status # 200
                  /\ Submit(apiKey, datasetId, << >>,
                            [defined |-> FALSE, rowGreaterThan |-> 0])) =>
                  /\ JobStateUnchanged
                  /\ ~apiKey =>
                        event'.status = 401
                  /\ (apiKey /\ datasetId \notin DOMAIN datasets) =>
                        event'.status = 404
                  /\ (apiKey /\ datasetId \in DOMAIN datasets) =>
                        /\ Len(activeWorkers) = 0
                        /\ event'.status = 503
                        /\ event'.error = "No workers available"
          /\ event'.status = 200 =>
                /\ Len(activeWorkers) > 0
                /\ jobIdCounter' = jobIdCounter + 1
                /\ event'.jobId \notin DOMAIN jobs
                /\ event'.jobId \in DOMAIN jobs'
      ]_vars

\* the three rejections have each been answered
C10_Witness ==
    /\ event.op = "submit"
    /\ event.status = 503
    /\ event.error = "No workers available"
    /\ "d1" \in DOMAIN datasets

\* ---------------------------------------------------------------- merge claims
\* no chunkId was stored with two different values
OneValuePerChunk(jobId) ==
    \A p, q \in DOMAIN received[jobId] : p[1] = q[1] => p = q

\* the stored (chunkId, value) pair with the smallest chunkId
First(pairs) == CHOOSE p \in pairs : \A q \in pairs : p[1] <= q[1]

\* what the reducer named by its source text computes on two numbers
Reducer(fn, a, b) ==
    CASE fn = "(a,b)=>a-b" -> a - b
      [] fn = "(a,b)=>2*a+b" -> 2 * a + b

\* left fold of the numbers in ascending chunkId order
RECURSIVE FoldAscending(_, _, _)
FoldAscending(pairs, fn, acc) ==
    IF pairs = {} THEN acc
    ELSE FoldAscending(pairs \ {First(pairs)}, fn, Reducer(fn, acc, First(pairs)[2].n))

\* the sum of the numbers
RECURSIVE SumOf(_)
SumOf(pairs) ==
    IF pairs = {} THEN 0
    ELSE First(pairs)[2].n + SumOf(pairs \ {First(pairs)})

\* the arrays one after the other in ascending chunkId order
RECURSIVE ConcatAscending(_)
ConcatAscending(pairs) ==
    IF pairs = {} THEN << >>
    ELSE First(pairs)[2].items \o ConcatAscending(pairs \ {First(pairs)})

Resolved(jobId) ==
    /\ jobId \in DOMAIN promises
    /\ promises[jobId].state = "resolved"

LastOp(jobId) == dispatch[jobId].ops[Len(dispatch[jobId].ops)]

Pairs(jobId) == DOMAIN received[jobId]

\* the last chunk_result to arrive was not the one with the largest chunkId
ArrivedOutOfOrder(jobId) ==
    /\ event.op = "message"
    /\ event.type = "chunk_result"
    /\ event.jobId = jobId
    /\ \E p \in Pairs(jobId) : p[1] > event.chunkId

\* C5: the result of a pipeline ending in reduce is the left fold of the
\* stored partials in ascending chunkId order from the initial value; it is a
\* function of the set of (chunkId, value) results, not of their arrival order.
C5_ReduceFoldsInChunkOrder ==
    \A jobId \in DOMAIN promises :
        (Resolved(jobId) /\ LastOpType(dispatch[jobId].ops) = "reduce"
                         /\ OneValuePerChunk(jobId)) =>
            promises[jobId].value =
                Num(FoldAscending(Pairs(jobId), LastOp(jobId).fn,
                                  LastOp(jobId).initialValue))

\* a reduce job resolved whose partials differ and whose last result to arrive
\* was for an earlier chunk than one already stored
C5_Witness ==
    \E jobId \in DOMAIN promises :
        /\ Resolved(jobId)
        /\ LastOpType(dispatch[jobId].ops) = "reduce"
        /\ LastOp(jobId).fn = "(a,b)=>2*a+b"
        /\ Cardinality(Pairs(jobId)) = MergeChunks
        /\ OneValuePerChunk(jobId)
        /\ \E p, q \in Pairs(jobId) : p[2] # q[2]
        /\ ArrivedOutOfOrder(jobId)

\* C6: the result of a pipeline ending in count is the sum of the stored
\* partials, whatever order they arrived in.
C6_CountSumsPartials ==
    \A jobId \in DOMAIN promises :
        (Resolved(jobId) /\ LastOpType(dispatch[jobId].ops) = "count"
                         /\ OneValuePerChunk(jobId)) =>
            promises[jobId].value = Num(SumOf(Pairs(jobId)))

C6_Witness ==
    \E jobId \in DOMAIN promises :
        /\ Resolved(jobId)
        /\ LastOpType(dispatch[jobId].ops) = "count"
        /\ Cardinality(Pairs(jobId)) = MergeChunks
        /\ OneValuePerChunk(jobId)
        /\ \E p, q \in Pairs(jobId) : p[2] # q[2]
        /\ ArrivedOutOfOrder(jobId)

\* C7: the result of a pipeline whose last operation is neither count nor
\* reduce (an empty pipeline included) is the concatenation of the stored
\* partials in chunkId order, whatever order they arrived in.
C7_ConcatInChunkOrder ==
    \A jobId \in DOMAIN promises :
        (Resolved(jobId) /\ LastOpType(dispatch[jobId].ops) \notin {"count", "reduce"}
                         /\ OneValuePerChunk(jobId)) =>
            promises[jobId].value = Arr(ConcatAscending(Pairs(jobId)))

C7_Witness ==
    \E jobId \in DOMAIN promises :
        /\ Resolved(jobId)
        /\ dispatch[jobId].ops = << >>
        /\ Cardinality(Pairs(jobId)) = MergeChunks
        /\ OneValuePerChunk(jobId)
        /\ \E p, q \in Pairs(jobId) : p[2] # q[2]
        /\ ArrivedOutOfOrder(jobId)

\* ---------------------------------------------------------------- liveness
\* C8: with every worker of the snapshot connected and answering each task it
\* receives with one chunk_result, an accepted job is eventually resolved: the
\* merged result is delivered and the request answered 200.
C8_JobEventuallyResolves ==
    \A jobId \in JobIds :
        [](jobId \in DOMAIN promises =>
              <>(/\ jobId \in DOMAIN promises
                 /\ promises[jobId].state = "resolved"
                 /\ Len(responses[jobId]) = 1
                 /\ responses[jobId][1].status = 200))

\* ---------------------------------------------------------------- dispatch claims
\* the chunk count the catalog records for the shards
RECURSIVE TotalChunks(_)
TotalChunks(shards) ==
    IF shards = << >> THEN 0 ELSE Head(shards).chunks + TotalChunks(Tail(shards))

\* the shards a submission's predicate retains
Retained(shards, predicate) ==
    SelectSeq(shards, LAMBDA sh : ~predicate.defined \/ sh.rowEnd > predicate.rowGreaterThan)

\* the chunkIds of the task messages sent for the job
WireChunkIds(jobId) == { task.chunkId : task \in { t \in sent : t.jobId = jobId } }

\* the job was registered for n tasks: task list, expected count and an empty
\* partials array all of size n
JobBuiltFor(jobId, n) ==
    /\ Len(dispatch[jobId].tasks) = n
    /\ jobs[jobId].expectedChunks = n
    /\ jobs[jobId].completedChunks = 0
    /\ Len(jobs[jobId].partials) = n
    /\ \A i \in 1..n : jobs[jobId].partials[i] = Hole

\* the task messages sent so far carry the chunkIds 0, 1, 2, ... without gap,
\* and all of 0..n-1 once the dispatch loop has ended normally
WireChunkIdsInOrder ==
    \A jobId \in DOMAIN dispatch :
        /\ WireChunkIds(jobId) = 0..(dispatch[jobId].index - 1)
        /\ dispatch[jobId].pc = "done" =>
               WireChunkIds(jobId) = 0..(Len(dispatch[jobId].tasks) - 1)

\* C11 (as claimed): every accepted job gets exactly one task per chunk of the
\* dataset, with chunkIds exactly 0..n-1, expected = n and n partial slots.
C11_OneTaskPerChunk ==
    [][ \A datasetId \in DatasetIds, predicate \in Predicates :
          (/\ event'.op = "submit"
           /\ event'.status = 200
           /\ Submit(TRUE, datasetId, DispatchOps, predicate)) =>
              /\ JobBuiltFor(event.jobId, TotalChunks(datasets[datasetId].shards))'
              /\ WireChunkIdsInOrder'
      ]_vars

\* C11 (amended): every accepted job gets exactly one task per chunk of every
\* shard of the dataset that the submission's predicate retains (every shard
\* when there is no predicate); the task messages carry the chunkIds 0..n-1,
\* each once, and the job is registered with expected = n and n partial slots.
C11_OneTaskPerRetainedChunk ==
    [][ /\ \A datasetId \in DatasetIds, predicate \in Predicates :
              (/\ event'.op = "submit"
               /\ event'.status = 200
               /\ Submit(TRUE, datasetId, DispatchOps, predicate)) =>
                  JobBuiltFor(event.jobId,
                      TotalChunks(Retained(datasets[datasetId].shards, predicate)))'
        /\ WireChunkIdsInOrder'
      ]_vars

\* a job whose predicate pruned a shard has had all its tasks sent, beside a
\* job over every shard
C11_Witness ==
    \E jobId, other \in DOMAIN dispatch :
        /\ dispatch[jobId].pc = "done"
        /\ Len(dispatch[jobId].tasks) = 1
        /\ WireChunkIds(jobId) = {0}
        /\ dispatch[other].pc = "done"
        /\ Len(dispatch[other].tasks) = 3
        /\ WireChunkIds(other) = {0, 1, 2}
        /\ TotalChunks(datasets["d1"].shards) = 3

\* C12: every task goes to position chunkId mod |W| of the worker snapshot W
\* taken at submission; W never changes afterwards, so a connection accepted
\* after the submission gets no task of the job.
C12_RoundRobinOnFrozenSnapshot ==
    [][ /\ \A jobId \in DOMAIN dispatch' \ DOMAIN dispatch :
              dispatch'[jobId].workerArray = activeWorkers
        /\ \A jobId \in DOMAIN dispatch :
              /\ jobId \in DOMAIN dispatch'
              /\ dispatch'[jobId].workerArray = dispatch[jobId].workerArray
        /\ \A task \in sent' \ sent :
              LET W == dispatch[task.jobId].workerArray
              IN  /\ task.to = W[(task.chunkId % Len(W)) + 1]
                  /\ \A c \in DOMAIN sockets :
                        (sockets[c].state = "open"
                            /\ \A i \in 1..Len(W) : W[i] # c) => task.to # c
      ]_vars

\* the third task of a job with a snapshot of two workers has just been sent
\* while a connection accepted after the submission is open
C12_Witness ==
    /\ event.op = "dispatch"
    /\ event.type = "send"
    /\ event.chunkId = 2
    /\ dispatch[event.jobId].workerArray = << 1, 2 >>
    /\ sockets[3].state = "open"
    /\ { task.to : task \in { t \in sent : t.jobId = event.jobId } } = {1, 2}
    /\ [type |-> "execute_chunk", jobId |-> event.jobId, chunkId |-> 2, to |-> 1] \in sent

\* C13: an accepted job gets a jobId no earlier job has and larger than all of
\* them, also while earlier jobs are still being dispatched.
C13_JobIdsIncrease ==
    [][ (event'.op = "submit" /\ event'.status = 200) =>
           /\ event'.jobId \notin DOMAIN dispatch
           /\ \A jobId \in DOMAIN dispatch : event'.jobId > jobId
           /\ DOMAIN dispatch' = DOMAIN dispatch \cup {event'.jobId}
           /\ \A jobId \in DOMAIN dispatch : dispatch'[jobId] = dispatch[jobId]
      ]_vars

\* a second job was accepted while the first was between two of its sends
C13_Witness ==
    /\ event.op = "submit"
    /\ event.status = 200
    /\ event.jobId = 2
    /\ dispatch[1].pc = "reading"
    /\ dispatch[1].index = 1
    /\ DOMAIN jobs = {1, 2}

\* ---------------------------------------------------------------- concurrent job claims
\* everything the server holds about the job is as it was
JobUntouched(jobId) ==
    /\ (jobId \in DOMAIN jobs) = (jobId \in DOMAIN jobs')
    /\ jobId \in DOMAIN jobs => jobs'[jobId] = jobs[jobId]
    /\ (jobId \in DOMAIN promises) = (jobId \in DOMAIN promises')
    /\ jobId \in DOMAIN promises =>
          /\ promises'[jobId] = promises[jobId]
          /\ responses'[jobId] = responses[jobId]
          /\ calls'[jobId] = calls[jobId]
          /\ received'[jobId] = received[jobId]

\* C14: a chunk_result or chunk_error carrying jobId A leaves the entry
\* (partials, completed count, presence) and the outcome of every other job B
\* as they were.
C14_FramesTouchOnlyTheirJob ==
    [][ (event'.op = "message" /\ event'.type \in {"chunk_result", "chunk_error"}) =>
           \A other \in JobIds \ {event'.jobId} : JobUntouched(other)
      ]_vars

\* the frame that resolved job 1 arrived while job 2 was registered with one
\* of its two results stored
C14_Witness ==
    /\ event.op = "message"
    /\ event.type = "chunk_result"
    /\ event.jobId = 1
    /\ 1 \notin DOMAIN jobs
    /\ 1 \in DOMAIN promises
    /\ promises[1].state = "resolved"
    /\ 2 \in DOMAIN jobs
    /\ jobs[2].expectedChunks = 2
    /\ jobs[2].completedChunks = 1
    /\ promises[2].state = "pending"

\* C15: a chunk_result whose jobId has no entry in the registry (never issued,
\* or the job already resolved or failed) changes nothing: not the registry,
\* not any job, not the connection set, and no submitter is answered.
C15_UnknownJobResultDropped ==
    [][ (/\ event'.op = "message"
         /\ event'.type = "chunk_result"
         /\ event'.jobId \notin DOMAIN jobs) =>
            /\ UNCHANGED << jobs, promises, responses, calls, received >>
            /\ UNCHANGED << sockets, activeWorkers, jobIdCounter, dispatch, sent >>
      ]_vars

\* a chunk_result for job 1 arrived after a chunk_error had failed it, while
\* job 2 was registered; before that one arrived for a jobId never issued
C15_Witness ==
    /\ event.op = "message"
    /\ event.type = "chunk_result"
    /\ event.jobId = 1
    /\ 1 \notin DOMAIN jobs
    /\ 1 \in DOMAIN promises
    /\ promises[1].state = "rejected"
    /\ 2 \in DOMAIN jobs
    /\ jobs[2].completedChunks = 1

\* C16: a job's promise settles at most once and the request is answered
\* exactly when it settles, once: 200 with the merged result or 500; later
\* calls of resolve or reject change neither.
C16_OneOutcomePerJob ==
    [][ \A jobId \in DOMAIN promises' :
          /\ Len(responses'[jobId]) = IF promises'[jobId].state = "pending" THEN 0 ELSE 1
          /\ promises'[jobId].state = "resolved" =>
                 responses'[jobId][1] = [status |-> 200, body |-> promises'[jobId].value]
          /\ promises'[jobId].state = "rejected" => responses'[jobId][1].status = 500
          /\ (jobId \in DOMAIN promises /\ promises[jobId].state # "pending") =>
                 /\ promises'[jobId] = promises[jobId]
                 /\ responses'[jobId] = responses[jobId]
      ]_vars

\* a job rejected by a failed dispatch stayed registered, and the results that
\* arrived afterwards completed it: resolve was called on the settled promise
C16_Witness ==
    \E jobId \in DOMAIN calls :
        /\ Len(calls[jobId]) = 2
        /\ calls[jobId][1] = Call("reject", "dispatch")
        /\ calls[jobId][2] = Call("resolve", "chunk_result")
        /\ promises[jobId].state = "rejected"
        /\ Len(responses[jobId]) = 1

\* ---------------------------------------------------------------- connection claims
\* the connections that declared the observing role and are connected
Observers ==
    { c \in DOMAIN sockets : sockets[c].state = "open" /\ sockets[c].role = "controller" }

\* the server wrote a worker_progress frame about the task to connection c
ProgressForwardedTo(c, jobId, chunkId) ==
    \E frame \in sent :
        /\ frame.type = "worker_progress"
        /\ frame.to = c
        /\ frame.jobId = jobId
        /\ frame.chunkId = chunkId

\* C17: a worker_progress message received from a worker has been forwarded
\* to every observer connected when it was received.
C17_ProgressReachesObservers ==
    (event.op = "message" /\ event.type = "worker_progress") =>
        \A c \in Observers : ProgressForwardedTo(c, event.jobId, event.chunkId)

\* the members of the worker set
Members(set) == { set[i] : i \in 1..Len(set) }

\* C19: a connection whose peer has been silent for two liveness periods is
\* no longer in the connection registry, and no dispatch snapshot taken from
\* then on contains it.
C19_SilentConnectionsDropped ==
    \A c \in DOMAIN sockets :
        (sockets[c].state = "lost" /\ sockets[c].missed >= 2) =>
            /\ c \notin Members(activeWorkers)
            /\ (event.op = "submit" /\ event.status = 200) =>
                   c \notin Members(dispatch[event.jobId].workerArray)

\* the connections accepted and not yet closed
Connected == { c \in DOMAIN sockets : sockets[c].state \in {"open", "lost"} }

\* C20: the worker set holds exactly the connections accepted and not yet
\* closed, each once: accept adds the connection, close removes it, and the
\* snapshot of a job submitted after a connection's close does not contain it.
C20_WorkerSetIsOpenConnections ==
    [][ /\ Members(activeWorkers') = Connected'
        /\ Len(activeWorkers') = Cardinality(Connected')
        /\ \A c \in DOMAIN sockets :
              /\ (sockets[c].state = "new" /\ sockets'[c].state = "open") =>
                     c \in Members(activeWorkers') \ Members(activeWorkers)
              /\ (sockets[c].state = "open" /\ sockets'[c].state = "closed") =>
                     c \in Members(activeWorkers) \ Members(activeWorkers')
        /\ \A jobId \in DOMAIN dispatch' \ DOMAIN dispatch :
              \A c \in Members(dispatch'[jobId].workerArray) :
                  sockets[c].state \notin {"new", "closed"}
      ]_vars

\* a job was submitted after connection 1 had closed: its snapshot is the
\* other connection alone
C20_Witness ==
    /\ event.op = "submit"
    /\ event.status = 200
    /\ sockets[1].state = "closed"
    /\ sockets[2].state = "open"
    /\ dispatch[event.jobId].workerArray = << 2 >>
    /\ activeWorkers = << 2 >>

\* ---------------------------------------------------------------- lost workers
\* the connection the task was sent to has closed without answering it, and no
\* chunk_result for the task's chunkId has been stored
Stalled(task) ==
    /\ task \notin replied
    /\ sockets[task.to].state = "closed"
    /\ Contributions(task.jobId, task.chunkId) = 0

\* the job is registered and its submitter has got neither result nor error
Unfinished(jobId) ==
    /\ jobId \in DOMAIN jobs
    /\ promises[jobId].state = "pending"
    /\ responses[jobId] = << >>

\* the chunk_result messages stored for the job, repeated ones included
ReceivedCount(jobId) == BagCardinality(received[jobId])

\* the step is the arrival of a message about the task's own chunkId
ForChunkOf(task) ==
    /\ event'.op = "message"
    /\ event'.jobId = task.jobId
    /\ event'.chunkId = task.chunkId

\* C18 (as claimed): once the worker holding a task has disconnected without
\* replying, and as long as no message for that chunkId arrives, the job
\* stays in the registry and its submitter gets neither a result nor an error.
C18_LostTaskStallsJob ==
    [][ \A task \in sent :
          (Stalled(task) /\ Unfinished(task.jobId) /\ ~ForChunkOf(task)) =>
              Unfinished(task.jobId)'
      ]_vars

\* C18 (amended): the disconnect itself changes nothing about the job, and
\* once the worker holding a task has disconnected without replying the job
\* stays in the registry, its submitter unanswered, for as long as no
\* chunk_error for the job arrives, no file read of its dispatch fails and
\* fewer chunk_result messages than the job has tasks have been counted for it.
C18_LostTaskStallsUntilErrorOrCount ==
    [][ /\ event'.op = "close" => UNCHANGED << jobs, promises, responses, calls, received >>
        /\ \A task \in sent :
              (/\ Stalled(task)
               /\ Unfinished(task.jobId)
               /\ ~(event'.op = "message" /\ event'.type = "chunk_error"
                                          /\ event'.jobId = task.jobId)
               /\ ~(event'.op = "dispatch" /\ event'.type = "failed"
                                           /\ event'.jobId = task.jobId)
               /\ ReceivedCount(task.jobId)' < Expected(task.jobId)) =>
                  Unfinished(task.jobId)'
      ]_vars

\* the result of another chunk has arrived for a job one of whose tasks went
\* to a connection that closed without answering: the job waits for one more
C18_Witness ==
    \E task \in sent :
        /\ Stalled(task)
        /\ Unfinished(task.jobId)
        /\ event.op = "message"
        /\ event.type = "chunk_result"
        /\ event.jobId = task.jobId
        /\ event.chunkId # task.chunkId
        /\ Expected(task.jobId) = 2
        /\ ReceivedCount(task.jobId) = 1
\* chunk uploads for one dataset, suspended at their renames and resumed in any
\* order, and a job submitted over what they recorded
UploadNext ==
    \/ OnConnection(1, "worker")
    \/ \E uploadId \in DatasetIds : IsFreshId(uploadId) /\ StartUpload(uploadId, "a")
    \/ \E uploadId \in DatasetIds, shardId \in ShardIds, chunkId \in UploadChunkIds,
          rowEnd \in RowEnds : UploadChunkBegin(uploadId, shardId, chunkId, rowEnd)
    \/ \E r \in inflight : UploadChunkFinish(r)
    \/ \E datasetId \in DatasetIds :
          jobIdCounter = 0 /\ Submit(TRUE, datasetId, DispatchOps, NoPredicate)
    \/ Restart

UploadSpec == Init /\ [][UploadNext]_vars

\* ---------------------------------------------------------------- C21
\* C21: a frame that is no JSON, or the JSON of a value that is no object, or an
\* object of a type other than chunk_result and chunk_error, is discarded: the
\* job registry, the promises and responses of the jobs, the dataset catalog and
\* the worker set are as before, and the sender is still an open, registered
\* connection.
C21_OtherFramesDiscarded ==
    [][\A c \in ConnIds, raw \in OtherFrames :
          OnFrame(c, raw) =>
              /\ UNCHANGED << jobs, promises, responses, datasets, activeWorkers >>
              /\ sockets'[c].state = "open"
              /\ c \in Members(activeWorkers')]_vars

\* a frame that is no JSON has arrived while a job was registered and waiting
C21_Witness ==
    /\ event.op = "frame"
    /\ event.type = "invalid"
    /\ DOMAIN jobs # {}
    /\ sent # {}

\* ---------------------------------------------------------------- C22
\* what list() shows of a catalog, with the chunk count of every shard
Listed(catalog) ==
    [id \in DOMAIN catalog |->
        [name |-> catalog[id].name, timestamp |-> catalog[id].timestamp,
         shards |-> catalog[id].shards]]

\* C22: whenever no request is under way, a restart followed by
\* restoreDatasetsFromDisk would yield the catalog the process holds: the same
\* ids with the same names, timestamps, shards and chunk counts.
C22_RestoreYieldsCatalog ==
    inflight = {} => Listed(restoreDatasetsFromDisk(disk)) = Listed(datasets)

\* ---------------------------------------------------------------- C25
\* C25: a registration never takes an id that the catalog or the data root
\* already holds.
C25_RegistrationTakesFreshId ==
    [][\A uploadId \in CatalogIds, name \in RequestNames :
          StartUpload(uploadId, name) => IsFreshId(uploadId)]_vars

\* ---------------------------------------------------------------- C23
\* C23: a DELETE of an id the catalog does not hold answers 404 and leaves
\* catalog, data root and chunk files as they were; a DELETE of an id it holds
\* ends with the id absent from the catalog and an answer that is no error,
\* whether or not the rm of its directory succeeded.
C23_DeleteRemovesEntry ==
    [][/\ \A id \in CatalogIds :
             (DeleteBegin(id) /\ id \notin DOMAIN datasets) =>
                 /\ event'.status = 404
                 /\ UNCHANGED << datasets, disk, files, inflight >>
       /\ \A r \in inflight :
             DeleteFinish(r) =>
                 /\ r.id \notin DOMAIN datasets'
                 /\ event'.status = 200]_vars

\* ---------------------------------------------------------------- C24
\* the time a reaper run that has just ended had read
RunEnded == event'.op = "reaper" /\ event'.error = "done"
RunTime == IF \E r \in inflight : r.op = "reaper"
           THEN (CHOOSE r \in inflight : r.op = "reaper").at ELSE now

\* C24: when a reaper run ends, no dataset that was older than two hours when
\* the run read the clock is left in the catalog, and the entries a reaper step
\* takes out of the catalog are all older than two hours.
C24_ReaperEvictsExpired ==
    [][/\ RunEnded => \A id \in DOMAIN datasets' : ~ IsExpired(datasets'[id], RunTime)
       /\ event'.op = "reaper" =>
             \A id \in DOMAIN datasets \ DOMAIN datasets' : IsExpired(datasets[id], now)]_vars

\* ---------------------------------------------------------------- C27
\* C27: a meta.json under the data root is always a complete record, whatever
\* point the process was stopped at.
C27_MetaJsonNeverTruncated ==
    \A id \in DOMAIN disk : disk[id].meta.kind # "truncated"

\* ---------------------------------------------------------------- C28
\* the process has just been started: the catalog is what the restore made of disk
JustStarted == event.op \in {"restart", "killed"}

\* C28: after a start, the catalog holds exactly the directories whose
\* meta.json parses, each with the name, timestamp and shards written in its
\* meta.json; a directory whose meta.json does not parse, or that has none,
\* contributes nothing, wherever in the listing it comes.
C28_RestoreLoadsParseable ==
    JustStarted =>
        /\ DOMAIN datasets = { id \in DOMAIN disk : disk[id].meta.kind = "json" }
        /\ \A id \in DOMAIN datasets :
              Serialize(datasets[id]) = disk[id].meta

\* a start found a cut-short meta.json in the first directory of the listing
\* and loaded the second
C28_Witness ==
    /\ JustStarted
    /\ "d1" \in DOMAIN disk
    /\ disk["d1"].meta.kind = "truncated"
    /\ "d2" \in DOMAIN datasets
    /\ Len(datasets["d2"].shards) = 1

\* ---------------------------------------------------------------- C26
\* C26: every dataset in the catalog has at least one shard, and every job in
\* the registry expects at least one chunk.
C26_NoEmptyDatasetNoEmptyJob ==
    /\ \A id \in DOMAIN datasets : Len(datasets[id].shards) >= 1
    /\ \A jobId \in DOMAIN jobs : jobs[jobId].expectedChunks >= 1

\* ---------------------------------------------------------------- C29
\* job jobId has been put in the registry: it is there, or it was and a call
\* of its resolve or reject went with its removal
HasBeenRegistered(jobId) ==
    \/ jobId \in DOMAIN jobs
    \/ jobId \in DOMAIN calls /\ calls[jobId] # << >>

TaskSent == event'.op = "dispatch" /\ event'.type = "send"

\* C29: whenever a task of a job is sent, and whenever a worker's chunk_result
\* or chunk_error for a task it was sent is processed, the job has already been
\* put in the registry.
C29_RegisteredBeforeFirstSend ==
    [][/\ TaskSent => HasBeenRegistered(event'.jobId)
       /\ \A task \in sent :
             (WorkerFail(task)
              \/ \E result \in ProtocolResults(dispatch[task.jobId].ops) :
                    WorkerReply(task, result))
                 => HasBeenRegistered(task.jobId)]_vars

\* the answer to task 0 was stored in the job's entry while the dispatch loop
\* was still reading the file of a later task
C29_Witness ==
    \E jobId \in DOMAIN dispatch :
        /\ dispatch[jobId].pc = "reading"
        /\ dispatch[jobId].index = 1
        /\ jobId \in DOMAIN jobs
        /\ jobs[jobId].completedChunks = 1
        /\ event.op = "message"

\* ---------------------------------------------------------------- C30
\* C30: a task message is sent only for a job that is in the registry, and
\* only for a (jobId, chunkId) that no earlier task message carried.
C30_NoSendAfterRemoval ==
    [][TaskSent =>
          /\ event'.jobId \in DOMAIN jobs
          /\ ~ \E m \in sent : m.jobId = event'.jobId /\ m.chunkId = event'.chunkId]_vars

\* ---------------------------------------------------------------- C31
\* C31: a dataset that is not in the catalog (it was deleted or evicted) has no
\* meta.json a restart would restore it from, whatever chunk uploads for its id
\* were under way when it was removed.
C31_DeletedStaysGone ==
    DOMAIN restoreDatasetsFromDisk(disk) \subseteq DOMAIN datasets

\* ---------------------------------------------------------------- C32
\* the chunk ids whose uploads for shard shardId of dataset id were accepted
UploadedChunkIds(id, shardId) == { f[3] : f \in { g \in files : g[1] = id /\ g[2] = shardId } }
SetMax(set) == CHOOSE x \in set : \A y \in set : y <= x
ChunksOf(catalog, id, shardId) ==
    IF id \in DOMAIN catalog /\ HasShard(catalog[id].shards, shardId)
    THEN (CHOOSE sh \in { catalog[id].shards[i] : i \in 1..Len(catalog[id].shards) } :
              sh.shardId = shardId).chunks
    ELSE 0

\* the recorded count of every shard is 1 + the largest chunk id uploaded for it
CountIsLargestPlusOne ==
    \A id \in DOMAIN datasets, shardId \in ShardIds :
        ChunksOf(datasets, id, shardId) =
            IF UploadedChunkIds(id, shardId) = {} THEN 0
            ELSE 1 + SetMax(UploadedChunkIds(id, shardId))

\* C32: on every step the recorded chunk count of every shard is 1 + the largest
\* chunk id uploaded for the shard, in whatever order the uploads were resumed,
\* and it does not decrease; a job submitted over the dataset gets one task for
\* every index below the count of every shard.
C32_ChunkCountIsLargestPlusOne ==
    [][/\ CountIsLargestPlusOne'
       /\ \A id \in DOMAIN datasets \cap DOMAIN datasets', shardId \in ShardIds :
             ChunksOf(datasets', id, shardId) >= ChunksOf(datasets, id, shardId)
       /\ \A datasetId \in DatasetIds :
             (Submit(TRUE, datasetId, DispatchOps, NoPredicate) /\ event'.status = 200) =>
                 LET tasks == dispatch'[event'.jobId].tasks
                 IN  \A shardId \in ShardIds :
                        \A chunkId \in 0..MaxChunkId :
                           Cardinality({ i \in 1..Len(tasks) :
                                            /\ tasks[i].shardId = shardId
                                            /\ tasks[i].chunkId = chunkId })
                              = IF chunkId < ChunksOf(datasets, datasetId, shardId)
                                THEN 1 ELSE 0]_vars

\* chunks 0 and 1 of shard 0 were uploaded, in either order, and a job over the
\* dataset was accepted with two tasks
C32_Witness ==
    /\ event.op = "submit"
    /\ event.status = 200
    /\ Len(dispatch[event.jobId].tasks) = 2
    /\ UploadedChunkIds("d1", 0) = {0, 1}

\* ---------------------------------------------------------------- executor: splitIntoRanges
poolVars == << workerPool, holders >>
parquetVars == << parquetLock, parquetFileCache, pipelines >>
pageVars == << jobQueue, activeTasksCount, running, wsOut, arrived >>

Min(a, b) == IF a < b THEN a ELSE b

\* Math.ceil(total / parts) for total >= 0 and parts >= 1
Ceil(total, parts) == (total + parts - 1) \div parts

RECURSIVE RangesFromUnclamped(_, _, _, _)
RangesFromUnclamped(i, total, size, ranges) ==
    IF i < total
    THEN RangesFromUnclamped(i + size, total, size,
                             Append(ranges, [start |-> i, end |-> i + size]))
    ELSE ranges

\* (mutant) the end of a range is not cut at total
splitIntoRangesUnclamped(total, parts) ==
    RangesFromUnclamped(0, total, Ceil(total, parts), << >>)

\* for (let i = 0; i < total; i += size) ranges.push({ start: i, end: min(i + size, total) })
RECURSIVE RangesFrom(_, _, _, _)
RangesFrom(i, total, size, ranges) ==
    IF i < total
    THEN RangesFrom(i + size, total, size,
                    Append(ranges, [start |-> i, end |-> Min(i + size, total)]))
    ELSE ranges

splitIntoRanges(total, parts) ==
    RangesFrom(0, total, Ceil(total, parts), << >>)

\* a call of splitIntoRanges with any item count and any number of parts
SplitInit ==
    /\ ServerInit
    /\ PoolInit
    /\ ParquetInit
    /\ PageInit
    /\ split \in { [total |-> total, parts |-> parts, ranges |-> << >>, applied |-> FALSE] :
                      total \in 0 .. MaxTotal, parts \in 1 .. MaxParts }

ApplySplit ==
    /\ ~split.applied
    /\ split' = [split EXCEPT !.ranges = splitIntoRanges(split.total, split.parts),
                              !.applied = TRUE]
    /\ UNCHANGED << server, event, poolVars, parquetVars, pageVars >>

SplitNext == ApplySplit

SplitSpec == SplitInit /\ [][SplitNext]_vars

\* ---------------------------------------------------------------- C38
\* C38: splitIntoRanges(total, parts) with total >= 0 and parts >= 1 returns at
\* most `parts` ranges, none of them empty, each starting where the one before
\* it ends, the first starting at 0 and the last ending at total; for total = 0
\* it returns no range.
C38_RangesPartitionTotal ==
    split.applied =>
        LET ranges == split.ranges
        IN  /\ Len(ranges) <= split.parts
            /\ \A i \in 1 .. Len(ranges) :
                  /\ ranges[i].start < ranges[i].end
                  /\ i > 1 => ranges[i].start = ranges[i - 1].end
            /\ split.total > 0 =>
                  /\ ranges # << >>
                  /\ ranges[1].start = 0
                  /\ ranges[Len(ranges)].end = split.total
            /\ split.total = 0 => ranges = << >>

\* C38 witness: a total that the parts do not divide was split into several
\* ranges, the last one shorter than the others
C38_Witness ==
    /\ split.applied
    /\ Len(split.ranges) > 1
    /\ split.total % split.parts # 0
    /\ LET last == split.ranges[Len(split.ranges)]
           first == split.ranges[1]
       IN  last.end - last.start < first.end - first.start

\* ---------------------------------------------------------------- executor: WorkerPool
\* this.workers.findIndex(w => !this.busy.has(w)): 0 stands for -1
FindIndex(pool) ==
    IF Workers \ pool.busy = {} THEN 0
    ELSE CHOOSE w \in Workers \ pool.busy : \A v \in Workers \ pool.busy : w <= v

\* the holders whose acquire has returned a worker they have not yet released
Holding == { h \in HolderIds : holders[h].pc \in {"granted", "running"} }

\* acquire(): the first worker that is not busy, or a place in the queue
acquire(h) ==
    /\ holders[h].pc = "idle"
    /\ LET index == FindIndex(workerPool)
           ticket == Cardinality({ g \in HolderIds : holders[g].pc # "idle" }) + 1
       IN  IF index # 0
           THEN /\ workerPool' = [workerPool EXCEPT !.busy = @ \cup {index}]
                /\ holders' = [holders EXCEPT ![h] =
                                  [pc |-> "granted", worker |-> index, ticket |-> ticket]]
           ELSE /\ workerPool' = [workerPool EXCEPT !.queue = Append(@, h)]
                /\ holders' = [holders EXCEPT ![h] =
                                  [pc |-> "waiting", worker |-> 0, ticket |-> ticket]]
    /\ UNCHANGED << server, event, parquetVars, split, pageVars >>

\* the callback resumes from `await workerPool.acquire()` and posts its range
\* to the worker
RunWorker(h) ==
    /\ holders[h].pc = "granted"
    /\ holders' = [holders EXCEPT ![h].pc = "running"]
    /\ UNCHANGED << server, event, workerPool, parquetVars, split, pageVars >>

\* (mutant) the worker is taken out of busy even when it goes to a waiter
releaseFreeing(pool, worker) ==
    IF pool.queue # << >>
    THEN [busy |-> pool.busy \ {worker}, queue |-> Tail(pool.queue), next |-> Head(pool.queue)]
    ELSE [busy |-> pool.busy \ {worker}, queue |-> pool.queue, next |-> 0]

\* (mutant) the waiter that asked last is served
releaseNewest(pool, worker) ==
    IF pool.queue # << >>
    THEN [busy |-> pool.busy, queue |-> SubSeq(pool.queue, 1, Len(pool.queue) - 1),
          next |-> pool.queue[Len(pool.queue)]]
    ELSE [busy |-> pool.busy \ {worker}, queue |-> pool.queue, next |-> 0]

\* release(worker): the pool after it, and the waiter whose resolver was called
release(pool, worker) ==
    IF pool.queue # << >>
    THEN [busy |-> pool.busy, queue |-> Tail(pool.queue), next |-> Head(pool.queue)]
    ELSE [busy |-> pool.busy \ {worker}, queue |-> pool.queue, next |-> 0]

\* runWorker settles, with the result or with an error, and the finally block
\* releases the worker
Finish(h, threw) ==
    /\ holders[h].pc = "running"
    /\ LET after == release(workerPool, holders[h].worker)
       IN  /\ workerPool' = [busy |-> after.busy, queue |-> after.queue]
           /\ holders' = [g \in HolderIds |->
                             IF g = h
                             THEN [pc |-> IF threw THEN "failed" ELSE "done",
                                   worker |-> 0, ticket |-> 0]
                             ELSE IF g = after.next
                             THEN [holders[g] EXCEPT !.pc = "granted",
                                                     !.worker = holders[h].worker]
                             ELSE holders[g]]
    /\ UNCHANGED << server, event, parquetVars, split, pageVars >>

PoolNext ==
    \/ \E h \in HolderIds : acquire(h)
    \/ \E h \in HolderIds : RunWorker(h)
    \/ \E h \in HolderIds, threw \in BOOLEAN : Finish(h, threw)

PoolSpec == Init /\ [][PoolNext]_vars

\* every callback that holds a worker resumes, and its runWorker settles
PoolFairSpec ==
    /\ Init
    /\ [][PoolNext]_vars
    /\ \A h \in HolderIds : WF_vars(RunWorker(h))
    /\ \A h \in HolderIds : WF_vars(\E threw \in BOOLEAN : Finish(h, threw))

\* ---------------------------------------------------------------- C34
\* C34: the pool never hands one worker to two holders: the holders that hold a
\* worker hold different workers of the pool, so they are at most the pool's
\* size, the busy set is the set of held workers, and the wait queue is
\* non-empty only while every worker is held.
C34_OneHolderPerWorker ==
    /\ \A g, h \in Holding : g # h => holders[g].worker # holders[h].worker
    /\ \A h \in Holding : holders[h].worker \in Workers
    /\ Cardinality(Holding) <= PoolSize
    /\ workerPool.busy = { holders[h].worker : h \in Holding }
    /\ workerPool.queue # << >> => \A w \in Workers : \E h \in Holding : holders[h].worker = w

\* C34 witness: a holder released its worker while another was waiting, the
\* waiter holds that worker now, and a further holder is waiting
C34_Witness ==
    /\ \E h \in HolderIds : holders[h].pc \in {"done", "failed"}
    /\ \E h \in Holding : holders[h].ticket > PoolSize
    /\ workerPool.queue # << >>

\* ---------------------------------------------------------------- C35
\* C35: with every holder releasing its worker, every acquire that had to wait
\* returns; and waiting acquires are served in the order they were made: a
\* waiter is never handed a worker while one that asked before it still waits.
Waiting == { h \in HolderIds : holders[h].pc = "waiting" }

C35_WaitersServedInOrder ==
    /\ \A h \in HolderIds : (holders[h].pc = "waiting") ~> (holders[h].pc # "waiting")
    /\ [][\A g, h \in Waiting :
             holders[g].ticket < holders[h].ticket =>
                 ~(holders'[h].pc # "waiting" /\ holders'[g].pc = "waiting")]_vars

\* C35 witness: two acquires waited, and the one made first has been handed a
\* worker while the other still waits
C35_Witness ==
    \E g, h \in HolderIds :
        /\ holders[g].ticket > PoolSize
        /\ holders[g].pc = "granted"
        /\ holders[h].pc = "waiting"
        /\ holders[g].ticket < holders[h].ticket

\* ---------------------------------------------------------------- executor: parquet lock and file cache
\* whether the lock promise `id` has been resolved
IsResolved(id) == IF id = 0 THEN TRUE ELSE pipelines[id].released

\* the calls between `await currentLock` and releaseLock()
Inside == { k \in PipelineIds : pipelines[k].pc \in {"fetching", "reading"} }

CacheHas(cache, url) == \E i \in 1 .. Len(cache) : cache[i] = url

CacheDelete(cache, url) == SelectSeq(cache, LAMBDA key : key # url)

\* (mutant) the entry inserted last is evicted
CacheInsertEvictingNewest(cache, url) ==
    Append(IF Len(cache) >= CacheLimit THEN SubSeq(cache, 1, Len(cache) - 1) ELSE cache, url)

\* lines 166-175: with the cache full, the first key of the Map is deleted;
\* then the file is set under its URL
CacheInsert(cache, url) ==
    Append(IF Len(cache) >= CacheLimit THEN Tail(cache) ELSE cache, url)

\* executeParquetPipeline is called and suspends at `await initParquet()`
CallPipeline(k, url) ==
    /\ pipelines[k].pc = "none"
    /\ \A j \in PipelineIds : j < k => pipelines[j].pc # "none"
    /\ pipelines' = [pipelines EXCEPT ![k].pc = "init", ![k].url = url]
    /\ UNCHANGED << server, event, poolVars, parquetLock, parquetFileCache, split, pageVars >>

\* the call resumes from `await initParquet()`, the calls resuming in the order
\* they suspended: without the engine it throws; with it, it takes the promise
\* in parquetLock as currentLock, puts a new promise in parquetLock and
\* suspends at `await currentLock`
TakeTurn(k, engine) ==
    /\ pipelines[k].pc = "init"
    /\ \A j \in PipelineIds : j < k => pipelines[j].pc # "init"
    /\ IF engine
       THEN /\ pipelines' = [pipelines EXCEPT ![k].pc = "waiting",
                                              ![k].currentLock = parquetLock]
            /\ parquetLock' = k
       ELSE /\ pipelines' = [pipelines EXCEPT ![k].pc = "failed"]
            /\ UNCHANGED parquetLock
    /\ UNCHANGED << server, event, poolVars, parquetFileCache, split, pageVars >>

\* currentLock is resolved and the call resumes: it looks its URL up in the
\* cache and suspends at the fetch of the file or, on a hit, at the read
Enter(k) ==
    /\ pipelines[k].pc = "waiting"
    /\ IsResolved(pipelines[k].currentLock)
    /\ pipelines' = [pipelines EXCEPT ![k].pc =
                        IF CacheHas(parquetFileCache, pipelines[k].url)
                        THEN "reading" ELSE "fetching"]
    /\ UNCHANGED << server, event, poolVars, parquetLock, parquetFileCache, split, pageVars >>

\* (mutant) releaseLock() is called only when nothing was thrown
LeaveHoldingOnError(table, k, threw) ==
    [table EXCEPT ![k].pc = IF threw THEN "rejected" ELSE "done",
                  ![k].released = ~threw]

\* the finally block calls releaseLock(); the call then goes on to
\* executePipeline or rejects
Leave(table, k, threw) ==
    [table EXCEPT ![k].pc = IF threw THEN "rejected" ELSE "done",
                  ![k].released = TRUE]

\* ParquetFile.fromUrl settles: the file goes into the cache, or the catch
\* block deletes the URL from the cache and the error is rethrown
FetchSettles(k, threw) ==
    /\ pipelines[k].pc = "fetching"
    /\ IF threw
       THEN /\ parquetFileCache' = CacheDelete(parquetFileCache, pipelines[k].url)
            /\ pipelines' = Leave(pipelines, k, TRUE)
       ELSE /\ parquetFileCache' = CacheInsert(parquetFileCache, pipelines[k].url)
            /\ pipelines' = [pipelines EXCEPT ![k].pc = "reading"]
    /\ UNCHANGED << server, event, poolVars, parquetLock, split, pageVars >>

\* file.read settles: the buffer is taken, or the catch block deletes the URL
\* from the cache and the error is rethrown
ReadSettles(k, threw) ==
    /\ pipelines[k].pc = "reading"
    /\ parquetFileCache' = IF threw THEN CacheDelete(parquetFileCache, pipelines[k].url)
                                    ELSE parquetFileCache
    /\ pipelines' = Leave(pipelines, k, threw)
    /\ UNCHANGED << server, event, poolVars, parquetLock, split, pageVars >>

ParquetNext ==
    \/ \E k \in PipelineIds, url \in Urls : CallPipeline(k, url)
    \/ \E k \in PipelineIds, engine \in BOOLEAN : TakeTurn(k, engine)
    \/ \E k \in PipelineIds : Enter(k)
    \/ \E k \in PipelineIds, threw \in BOOLEAN : FetchSettles(k, threw)
    \/ \E k \in PipelineIds, threw \in BOOLEAN : ReadSettles(k, threw)

ParquetSpec == Init /\ [][ParquetNext]_vars

\* a call whose await has settled resumes, and every fetch and read settles
ParquetFairSpec ==
    /\ Init
    /\ [][ParquetNext]_vars
    /\ \A k \in PipelineIds : WF_vars(Enter(k))
    /\ \A k \in PipelineIds : WF_vars(\E threw \in BOOLEAN : FetchSettles(k, threw))
    /\ \A k \in PipelineIds : WF_vars(\E threw \in BOOLEAN : ReadSettles(k, threw))

\* ---------------------------------------------------------------- C33
\* C33: at most one call is between its acquisition of the parquet lock and its
\* release; calls enter in the order they asked for the lock; and the lock is
\* released when the call succeeds and when it throws, so every call that waits
\* for the lock enters.
C33_LockIsExclusiveAndFair ==
    /\ [](Cardinality(Inside) <= 1)
    /\ [][\A k \in PipelineIds :
             (k \in Inside' /\ k \notin Inside) =>
                 \A j \in PipelineIds : j < k => pipelines[j].pc \notin {"init", "waiting"}]_vars
    /\ [][\A k \in PipelineIds :
             (k \in Inside /\ k \notin Inside') => pipelines'[k].released]_vars
    /\ \A k \in PipelineIds : (pipelines[k].pc = "waiting") ~> (k \in Inside)

\* C33 witness: a call threw inside the lock, the call queued behind it has
\* entered, and a third call waits for the second
C33_Witness ==
    \E j, k, l \in PipelineIds :
        /\ pipelines[j].pc = "rejected"
        /\ pipelines[k].currentLock = j
        /\ k \in Inside
        /\ pipelines[l].pc = "waiting"
        /\ pipelines[l].currentLock = k

\* ---------------------------------------------------------------- C39
\* C39: the parquet file cache never holds more than 2 entries; the entry an
\* insertion evicts is the one inserted earliest; and a URL whose fetch or read
\* failed is not in the cache when the call rejects.
C39_CacheBoundedOldestEvicted ==
    /\ [](Len(parquetFileCache) <= 2)
    /\ [][\A k \in PipelineIds :
             (pipelines[k].pc = "fetching" /\ pipelines'[k].pc = "reading") =>
                 \A url \in Urls :
                     (CacheHas(parquetFileCache, url) /\ ~CacheHas(parquetFileCache', url))
                         => url = Head(parquetFileCache)]_vars
    /\ [][\A k \in PipelineIds :
             (pipelines[k].pc # "rejected" /\ pipelines'[k].pc = "rejected") =>
                 ~CacheHas(parquetFileCache', pipelines[k].url)]_vars

\* C39 witness: a fetch or a read failed and the call rejected; a later file was
\* inserted into the full cache, and the URL of a call that had succeeded is gone
C39_Witness ==
    /\ \E k \in PipelineIds : pipelines[k].pc = "rejected"
    /\ Len(parquetFileCache) = 2
    /\ \E k \in PipelineIds :
          /\ pipelines[k].pc = "done"
          /\ ~CacheHas(parquetFileCache, pipelines[k].url)

\* ---------------------------------------------------------------- worker page: processQueue
ExecuteTypes == {"execute_chunk", "execute_parquet_chunk"}

\* the n-th execute message of the connection: the server sends one per task,
\* so no two carry the same (jobId, chunkId)
JobOf(n) == 1 + ((n - 1) \div 2)
ChunkOf(n) == (n - 1) % 2

Execute(n, type) == [n |-> n, type |-> type, jobId |-> JobOf(n), chunkId |-> ChunkOf(n)]

Executes == { Execute(n, type) : n \in 1 .. MaxMessages, type \in ExecuteTypes }

Page(queue, active, tasks) == [jobQueue |-> queue, activeTasksCount |-> active, running |-> tasks]

\* (mutant) a task is started while activeTasksCount <= MAX_CONCURRENT_TASKS
RECURSIVE processQueueOverfilling(_)
processQueueOverfilling(page) ==
    IF page.activeTasksCount <= MAX_CONCURRENT_TASKS /\ page.jobQueue # << >>
    THEN processQueueOverfilling(Page(Tail(page.jobQueue), page.activeTasksCount + 1,
                                      page.running \cup {Head(page.jobQueue)}))
    ELSE page

\* processQueue(): while (activeTasksCount < MAX_CONCURRENT_TASKS &&
\* jobQueue.length > 0) { activeTasksCount++; jobQueue.shift(); start the task }
\* the early return on an empty queue with no active task changes no state
RECURSIVE processQueue(_)
processQueue(page) ==
    IF page.activeTasksCount < MAX_CONCURRENT_TASKS /\ page.jobQueue # << >>
    THEN processQueue(Page(Tail(page.jobQueue), page.activeTasksCount + 1,
                           page.running \cup {Head(page.jobQueue)}))
    ELSE page

\* ws.onmessage for an execute_chunk / execute_parquet_chunk message
OnExecute(type) ==
    /\ arrived < MaxMessages
    /\ arrived' = arrived + 1
    /\ LET message == Execute(arrived + 1, type)
           page == processQueue(Page(Append(jobQueue, message), activeTasksCount, running))
       IN  /\ jobQueue' = page.jobQueue
           /\ activeTasksCount' = page.activeTasksCount
           /\ running' = page.running
    /\ UNCHANGED << server, event, poolVars, parquetVars, split, wsOut >>

Frame(type, message) == [type |-> type, jobId |-> message.jobId, chunkId |-> message.chunkId]

\* (mutant) the catch block sends nothing
ReplySilentOnError(out, message, threw) ==
    IF threw THEN out ELSE Append(out, Frame("chunk_result", message))

\* ws.send of chunk_result after the pipeline, of chunk_error in the catch block
Reply(out, message, threw) ==
    Append(out, Frame(IF threw THEN "chunk_error" ELSE "chunk_result", message))

\* the pipeline of a started task settles: the reply is sent, and the finally
\* block counts the task out and calls processQueue()
TaskSettles(message, threw) ==
    /\ message \in running
    /\ wsOut' = Reply(wsOut, message, threw)
    /\ LET page == processQueue(Page(jobQueue, activeTasksCount - 1, running \ {message}))
       IN  /\ jobQueue' = page.jobQueue
           /\ activeTasksCount' = page.activeTasksCount
           /\ running' = page.running
    /\ UNCHANGED << server, event, poolVars, parquetVars, split, arrived >>

PageNext ==
    \/ \E type \in ExecuteTypes : OnExecute(type)
    \/ \E message \in Executes, threw \in BOOLEAN : TaskSettles(message, threw)

PageSpec == Init /\ [][PageNext]_vars

\* the pipeline of every started task settles
PageFairSpec ==
    /\ Init
    /\ [][PageNext]_vars
    /\ \A message \in Executes : WF_vars(\E threw \in BOOLEAN : TaskSettles(message, threw))

\* ---------------------------------------------------------------- C36
\* C36: the worker page never runs more than MAX_CONCURRENT_TASKS tasks at once;
\* activeTasksCount is the number of running tasks and stays within
\* 0..MAX_CONCURRENT_TASKS; tasks are started in the order their messages came;
\* and the counter is 0 once the queue is drained and every task has finished.
QueuedMessages == { jobQueue[i] : i \in 1 .. Len(jobQueue) }

C36_AtMostMaxTasksInMessageOrder ==
    /\ [](/\ Cardinality(running) <= MAX_CONCURRENT_TASKS
          /\ activeTasksCount = Cardinality(running)
          /\ activeTasksCount \in 0 .. MAX_CONCURRENT_TASKS
          /\ (jobQueue = << >> /\ running = {}) => activeTasksCount = 0)
    /\ [][\A started \in running' \ running :
             \A message \in QueuedMessages' : started.n < message.n]_vars

\* C36 witness: the page runs as many tasks as it may, a message waits in the
\* queue, and a task that finished earlier has been replaced by a later message
C36_Witness ==
    /\ activeTasksCount = MAX_CONCURRENT_TASKS
    /\ jobQueue # << >>
    /\ wsOut # << >>
    /\ \E message \in running : message.n > MAX_CONCURRENT_TASKS

\* ---------------------------------------------------------------- C37
\* C37: for every execute message the worker page sends exactly one reply with
\* the message's jobId and chunkId: chunk_result when the pipeline finished,
\* chunk_error when it threw, never two replies, and, with every pipeline
\* settling, never none.
RepliesTo(n) ==
    { i \in 1 .. Len(wsOut) : wsOut[i].jobId = JobOf(n) /\ wsOut[i].chunkId = ChunkOf(n) }

C37_OneReplyPerMessage ==
    /\ [](\A n \in 1 .. MaxMessages : Cardinality(RepliesTo(n)) <= 1)
    /\ [][\A message \in Executes, threw \in BOOLEAN :
             TaskSettles(message, threw) =>
                 /\ Len(wsOut') = Len(wsOut) + 1
                 /\ wsOut'[Len(wsOut')] =
                       Frame(IF threw THEN "chunk_error" ELSE "chunk_result", message)]_vars
    /\ \A n \in 1 .. MaxMessages : (arrived >= n) ~> (Cardinality(RepliesTo(n)) = 1)

\* C37 witness: every message has come; one task was answered with
\* chunk_result and another with chunk_error
C37_Witness ==
    /\ arrived = MaxMessages
    /\ \E i, j \in 1 .. Len(wsOut) :
          /\ wsOut[i].type = "chunk_result"
          /\ wsOut[j].type = "chunk_error"

====
